---- MODULE Spec2Model ----
(***************************************************************************)
(* A model of the pluggedin-mcp proxy: the session registry of             *)
(* src/src/sessions.ts, the tool-to-server map rebuilt by the ListTools    *)
(* handler and by handleDiscoverTools, and the tools/call dispatch paths.  *)
(* Every async function is cut at its awaits: one action per stretch of    *)
(* code that runs without suspension.                                      *)
(***************************************************************************)
EXTENDS Integers, Sequences, FiniteSets, TLC

VARIABLES
  \* src/src/sessions.ts
  sessions,         \* _sessions: sessionKey -> id of the ConnectedClient registered
  objs,             \* the ConnectedClients ever connected: id -> [key, cleanups]
  gs,               \* getSession activations: slot -> [pc, key, uuid, params, pending, old, result]
                    \* and, as history, failed (keys whose teardown rejected), tried (connect attempted)
  ca,               \* the cleanupAllSessions activation: [pc, pending] and, as history,
                    \* registered (the sessions it found), left (the keys registered at its return)
  \* the capability index and what it is built from
  env,              \* process.env: [apiKey, baseUrl]
  directory,        \* what the directory service holds now
  toolToServerMap,  \* prefixed name -> [originalName, serverUuid]
  rb,               \* rebuild activations: slot -> [kind, pc, outcome, data, listed]
                    \* and, as history, valid (its arguments passed the schema) and
                    \* calls (the network calls it has made)
  serverContexts,   \* StaticToolHandlers.serverContexts: uuid -> context
  constraintMap,    \* StaticToolHandlers.constraintMap: uuid -> constraints
  committed,        \* history: toolToServerMap as the last successful rebuild left it
  lastDone,         \* history: the slot of the rebuild that completed last, or 0
  \* tools/call dispatch
  serverParams,     \* what getMcpServers(true) returns: uuid -> connection parameters
  profile,          \* [toolsManagement, inactive]: profile capabilities, inactive tools
  rq,               \* tools/call activations: slot -> request record and, as history,
                    \* forwards (the tools/call requests it has sent downstream)
  \* the fan-outs over the servers (get_tools, reportAllTools)
  ft,               \* the fan-out activation: [kind, pc, runs, servers, br, allProxiedTools, reported, result]
  \* resources/list
  lr,               \* ListResources activations: slot -> [pc, outcome, resources]
  rr,               \* ReadResource activations: slot -> [pc, uri, outcome]
  \* src/src/cache.ts
  cache,            \* this.cache: key -> [data, timestamp]
  ttl,              \* this.ttl
  now,              \* Date.now()
  written,          \* history: key -> [data, timestamp] of its last set and the entry that
                    \* set replaced, dropped by invalidate
  lastGet,          \* history: the last get if no set or invalidate followed: [key, result, at]
  \* src/src/index.ts
  ex,               \* handleExit activations: slot -> [pc, pending]
  proc,             \* the process: [transport, exited] and, as history, what was unfinished
                    \* when transport.close() was first called
  \* src/src/handlers/static-handlers.ts
  sh                \* activations of the static handlers that call the Pluggedin API:
                    \* slot -> [tool, pc, outcome] and, as history, valid and calls

sessionVars == <<sessions, objs, gs, ca>>
indexVars == <<env, directory, toolToServerMap, rb, serverContexts, constraintMap, committed, lastDone>>
dispatchVars == <<serverParams, profile, rq>>
fanoutVars == <<ft>>
listingVars == <<lr, rr>>
cacheVars == <<cache, ttl, now, written, lastGet>>
exitVars == <<ex, proc>>
staticVars == <<sh>>
otherVars == <<fanoutVars, listingVars, cacheVars, exitVars, staticVars>>
exceptFanout == <<listingVars, cacheVars, exitVars, staticVars>>
exceptListing == <<fanoutVars, cacheVars, exitVars, staticVars>>
exceptCache == <<fanoutVars, listingVars, exitVars, staticVars>>
exceptExit == <<fanoutVars, listingVars, cacheVars, staticVars>>
exceptStatic == <<fanoutVars, listingVars, cacheVars, exitVars>>
vars == <<sessionVars, indexVars, dispatchVars, otherVars>>

(***************************************************************************)
(* Bounds                                                                  *)
(***************************************************************************)
\* number of getSession activations of one behaviour (each slot is used once)
MaxCalls == 3

Slots == 1..MaxCalls

(***************************************************************************)
(* Session registry: src/src/sessions.ts                                   *)
(***************************************************************************)
\* server uuids, as sequences of tokens so that startsWith is a real prefix test
ServerUuids == {<<"s1">>, <<"s2">>}

\* connection parameters a server can be configured with; createPluggedinClient
\* yields no client/transport for InvalidParams
ValidParams == {"p1", "p2"}
InvalidParams == {"p0"}
ServerParameters == ValidParams \cup InvalidParams

\* digest of the parameters (distinct parameters, distinct digests)
Hash(params) ==
  CASE params = "p0" -> "h0"
    [] params = "p1" -> "h1"
    [] params = "p2" -> "h2"

\* utils.getSessionKey: `${uuid}_${hash(params)}`
getSessionKey(uuid, params) == uuid \o <<"_", Hash(params)>>

\* String.prototype.startsWith
startsWith(k, prefix) ==
  Len(k) >= Len(prefix) /\ SubSeq(k, 1, Len(prefix)) = prefix

SessionKeys == {getSessionKey(u, p) : u \in ServerUuids, p \in ServerParameters}

\* the value getSession returns when it returns nothing
Absent == 0


IdleCall ==
  [pc |-> "idle", key |-> <<>>, uuid |-> <<>>, params |-> "p1",
   pending |-> {}, old |-> {}, result |-> Absent, failed |-> {}, tried |-> FALSE]

\* delete _sessions[k]
Delete(reg, k) == [x \in (DOMAIN reg) \ {k} |-> reg[x]]

\* session.cleanup() invoked on every object of ids
InvokeCleanup(o, ids) ==
  [i \in DOMAIN o |->
     IF i \in ids THEN [o[i] EXCEPT !.cleanups = @ + 1] ELSE o[i]]

SessionInit ==
  /\ sessions = <<>>
  /\ objs = <<>>
  /\ gs = [c \in Slots |-> IdleCall]
  /\ ca = [pc |-> "idle", pending |-> {}, registered |-> {}, left |-> {}]

\* sessions.ts:19-21, the keys getSession treats as superseded
old_session_keys(uuid) ==
  {k \in DOMAIN sessions : startsWith(k, uuid \o <<"_">>)}

\* sessions.ts:15-25, getSession up to its first await: a registry hit returns
\* the registered session; a miss invokes cleanup() on every session whose key
\* starts with `${uuid}_` and suspends on Promise.allSettled
GetSessionEnter(c, uuid, params) ==
  LET sessionKey == getSessionKey(uuid, params)
      oldKeys == old_session_keys(uuid)
      oldIds == {sessions[k] : k \in oldKeys}
  IN  IF sessionKey \in DOMAIN sessions
        THEN /\ gs' = [gs EXCEPT ![c] =
                  [IdleCall EXCEPT !.pc = "returned", !.key = sessionKey,
                     !.uuid = uuid, !.params = params,
                     !.result = sessions[sessionKey]]]
             /\ UNCHANGED <<sessions, objs>>
        ELSE /\ gs' = [gs EXCEPT ![c] =
                  [IdleCall EXCEPT !.pc = "teardown", !.key = sessionKey,
                     !.uuid = uuid, !.params = params,
                     !.pending = oldKeys, !.old = oldIds]]
             /\ objs' = InvokeCleanup(objs, oldIds)
             /\ UNCHANGED sessions

\* a direct caller of getSession (a fan-out branch of report-tools.ts:129-131
\* or of GetPluggedinToolsTool.execute); slots are taken in order
GetSession(c, uuid, params) ==
  /\ gs[c].pc = "idle"
  /\ \A d \in Slots : d < c => gs[d].pc # "idle"
  /\ GetSessionEnter(c, uuid, params)
  /\ UNCHANGED ca
  /\ UNCHANGED <<indexVars, dispatchVars, otherVars>>

\* a getSession that lets the rejection of a teardown escape to its caller
TeardownSettleThrow(c, k, ok) ==
  /\ gs[c].pc = "teardown"
  /\ k \in gs[c].pending
  /\ gs' = [gs EXCEPT ![c].pending = @ \ {k},
                       ![c].failed = IF ok THEN @ ELSE @ \cup {k},
                       ![c].pc = IF ok THEN @ ELSE "thrown"]
  /\ sessions' = IF ok THEN Delete(sessions, k) ELSE sessions
  /\ UNCHANGED <<objs, ca>>
  /\ UNCHANGED <<indexVars, dispatchVars, otherVars>>

\* sessions.ts:25-26, one superseded session's cleanup() settles: fulfilled,
\* the key is deleted; rejected, the callback ends before its delete
TeardownSettle(c, k, ok) ==
  /\ gs[c].pc = "teardown"
  /\ k \in gs[c].pending
  /\ gs' = [gs EXCEPT ![c].pending = @ \ {k},
                       ![c].failed = IF ok THEN @ ELSE @ \cup {k}]
  /\ sessions' = IF ok THEN Delete(sessions, k) ELSE sessions
  /\ UNCHANGED <<objs, ca>>
  /\ UNCHANGED <<indexVars, dispatchVars, otherVars>>

\* sessions.ts:23-35, allSettled resumes getSession: createPluggedinClient,
\* then the await of connectPluggedinClient
AfterTeardown(c) ==
  /\ gs[c].pc = "teardown"
  /\ gs[c].pending = {}
  /\ gs' = [gs EXCEPT ![c].pc =
              IF gs[c].params \in InvalidParams THEN "returned" ELSE "connect",
                       ![c].tried = gs[c].params \notin InvalidParams]
  /\ UNCHANGED <<sessions, objs, ca>>
  /\ UNCHANGED <<indexVars, dispatchVars, otherVars>>

\* a getSession that registers the failed connect under sessionKey
ConnectSettleRegisterFailure(c, ok) ==
  /\ gs[c].pc = "connect"
  /\ IF ok
       THEN LET id == Len(objs) + 1
            IN  /\ objs' = Append(objs, [key |-> gs[c].key, cleanups |-> 0])
                /\ sessions' = (gs[c].key :> id) @@ sessions
                /\ gs' = [gs EXCEPT ![c].pc = "returned", ![c].result = id]
       ELSE /\ gs' = [gs EXCEPT ![c].pc = "returned"]
            /\ sessions' = (gs[c].key :> Absent) @@ sessions
            /\ UNCHANGED objs
  /\ UNCHANGED ca
  /\ UNCHANGED <<indexVars, dispatchVars, otherVars>>

\* sessions.ts:35-42, connectPluggedinClient settles: a new ConnectedClient is
\* registered under sessionKey and returned, or nothing is returned
ConnectSettle(c, ok) ==
  /\ gs[c].pc = "connect"
  /\ IF ok
       THEN LET id == Len(objs) + 1
            IN  /\ objs' = Append(objs, [key |-> gs[c].key, cleanups |-> 0])
                /\ sessions' = (gs[c].key :> id) @@ sessions
                /\ gs' = [gs EXCEPT ![c].pc = "returned", ![c].result = id]
       ELSE /\ gs' = [gs EXCEPT ![c].pc = "returned"]
            /\ UNCHANGED <<sessions, objs>>
  /\ UNCHANGED ca
  /\ UNCHANGED <<indexVars, dispatchVars, otherVars>>

\* sessions.ts:46-49, cleanupAllSessions up to its await: cleanup() is invoked
\* on every registered session
CleanupAllEnter ==
  /\ ca.pc = "idle"
  /\ ca' = [pc |-> "cleaning", pending |-> DOMAIN sessions,
            registered |-> {sessions[k] : k \in DOMAIN sessions}, left |-> {}]
  /\ objs' = InvokeCleanup(objs, {sessions[k] : k \in DOMAIN sessions})
  /\ UNCHANGED <<sessions, gs>>
  /\ UNCHANGED <<indexVars, dispatchVars, otherVars>>

\* sessions.ts:49-50, one cleanup() of cleanupAllSessions settles
CleanupAllSettle(k, ok) ==
  /\ ca.pc = "cleaning"
  /\ k \in ca.pending
  /\ ca' = [ca EXCEPT !.pending = @ \ {k}]
  /\ sessions' = IF ok THEN Delete(sessions, k) ELSE sessions
  /\ UNCHANGED <<objs, gs>>
  /\ UNCHANGED <<indexVars, dispatchVars, otherVars>>

\* sessions.ts:47-53, allSettled resumes cleanupAllSessions, which returns
CleanupAllReturn ==
  /\ ca.pc = "cleaning"
  /\ ca.pending = {}
  /\ ca' = [ca EXCEPT !.pc = "returned", !.left = DOMAIN sessions]
  /\ UNCHANGED <<sessions, objs, gs>>
  /\ UNCHANGED <<indexVars, dispatchVars, otherVars>>

SessionNext ==
  \/ \E c \in Slots, u \in ServerUuids, p \in ServerParameters : GetSession(c, u, p)
  \/ \E c \in Slots, k \in SessionKeys, ok \in BOOLEAN : TeardownSettle(c, k, ok)
  \/ \E c \in Slots : AfterTeardown(c)
  \/ \E c \in Slots, ok \in BOOLEAN : ConnectSettle(c, ok)
  \/ CleanupAllEnter
  \/ \E k \in SessionKeys, ok \in BOOLEAN : CleanupAllSettle(k, ok)
  \/ CleanupAllReturn


(***************************************************************************)
(* Capability index: toolToServerMap, rebuilt by the ListTools handler     *)
(* (src/unnamed/part_001) and by handleDiscoverTools (static-handlers.ts)  *)
(***************************************************************************)
\* number of rebuild activations (ListTools, discovery) of one behaviour
MaxRebuilds == 3

RebuildSlots == 1..MaxRebuilds

\* Names are sequences of tokens: a run of letters is one token, the separator
\* "_" and the space are tokens of their own.
UnsafeChars == {" "}

\* utils.sanitizeName: characters outside [a-zA-Z0-9_-] are dropped
sanitizeName(name) == SelectSeq(name, LAMBDA ch : ch \notin UnsafeChars)

\* what the directory service can hold: the configured servers, each with the
\* tools it declares
DirGitHub ==
  << [uuid |-> <<"s1">>, name |-> <<"GitHub">>,
      tools |-> << <<"create", "_", "issue">> >>] >>
DirSep ==
  << [uuid |-> <<"s1">>, name |-> <<"my", "_", "srv">>, tools |-> << <<"run">> >>] >>
DirTwo ==
  << [uuid |-> <<"s1">>, name |-> <<"GitHub">>,
      tools |-> << <<"create", "_", "issue">> >>],
     [uuid |-> <<"s2">>, name |-> <<"Git", " ", "Hub">>, tools |-> << <<"list">> >>] >>
DirCollide ==
  << [uuid |-> <<"s1">>, name |-> <<"a", "_", "b">>, tools |-> << <<"c">> >>],
     [uuid |-> <<"s2">>, name |-> <<"a">>, tools |-> << <<"b", "_", "c">>, <<"d">> >>] >>
DirNoTools ==
  << [uuid |-> <<"s2">>, name |-> <<"a">>, tools |-> << >>] >>

Directories == {DirGitHub, DirSep, DirTwo, DirCollide, DirNoTools}
InitialDirectories == {DirGitHub, DirSep}

\* the environment: PLUGGEDIN_API_KEY and PLUGGEDIN_API_BASE_URL set or not
Environments ==
  {[apiKey |-> TRUE, baseUrl |-> TRUE], [apiKey |-> FALSE, baseUrl |-> TRUE],
   [apiKey |-> TRUE, baseUrl |-> FALSE]}

\* static-handlers.ts:299, the name a tool is registered under
prefixedName(serverName, toolName) ==
  sanitizeName(serverName \o <<"_">> \o toolName)

RECURSIVE FlattenTools(_)
\* the (server, tool) pairs of a directory, in enumeration order
FlattenTools(data) ==
  IF data = << >> THEN << >>
  ELSE LET server == Head(data)
       IN  [i \in 1..Len(server.tools) |->
              [server |-> server, tool |-> server.tools[i]]]
           \o FlattenTools(Tail(data))

\* GET /api/tools of the Pluggedin App: the tools under their prefixed names,
\* each with the uuid of its server
ApiTools(data) ==
  LET pairs == FlattenTools(data)
  IN  [i \in 1..Len(pairs) |->
         [name |-> prefixedName(pairs[i].server.name, pairs[i].tool),
          serverUuid |-> pairs[i].server.uuid]]

RECURSIVE split(_)
\* String.prototype.split('_')
split(name) ==
  IF \A i \in 1..Len(name) : name[i] # "_" THEN << name >>
  ELSE LET i == CHOOSE j \in 1..Len(name) :
                  name[j] = "_" /\ \A k \in 1..(j - 1) : name[k] # "_"
       IN  << SubSeq(name, 1, i - 1) >> \o split(SubSeq(name, i + 1, Len(name)))

RECURSIVE join(_)
\* Array.prototype.join('_')
join(parts) ==
  IF parts = << >> THEN << >>
  ELSE IF Len(parts) = 1 THEN parts[1]
  ELSE parts[1] \o <<"_">> \o join(Tail(parts))

\* part_001:99-100, the original name the ListTools handler derives
parseOriginalName(name) == join(Tail(split(name)))

RECURSIVE ListPopulate(_, _)
\* part_001:97-106, forEach over the fetched tools onto map
ListPopulate(map, fetched) ==
  IF fetched = << >> THEN map
  ELSE LET tool == Head(fetched)
           originalName == parseOriginalName(tool.name)
       IN  ListPopulate(
             IF originalName # << >> /\ tool.serverUuid # << >>
               THEN (tool.name :> [originalName |-> originalName,
                                    serverUuid |-> tool.serverUuid]) @@ map
               ELSE map,
             Tail(fetched))

RECURSIVE DiscoverPopulate(_, _)
\* static-handlers.ts:292-304, forEach over servers and their tools onto map
DiscoverPopulate(map, pairs) ==
  IF pairs = << >> THEN map
  ELSE LET p == Head(pairs)
       IN  DiscoverPopulate(
             (prefixedName(p.server.name, p.tool) :>
                [originalName |-> p.tool, serverUuid |-> p.server.uuid]) @@ map,
             Tail(pairs))

\* part_001:48-52 and 115, the static tool every listing starts with
discoverToolsStaticTool == <<"pluggedin", "_", "discover", "_", "tools">>


IdleRebuild ==
  [kind |-> "none", pc |-> "idle", outcome |-> "none", data |-> << >>, listed |-> << >>,
   valid |-> TRUE, calls |-> 0]

\* custom-instructions.js, buildServerContextsMap: one context per server of
\* the fetched data, keyed by uuid
buildServerContextsMap(data) ==
  [u \in {data[i].uuid : i \in 1..Len(data)} |->
     [serverName |-> (CHOOSE s \in {data[i] : i \in 1..Len(data)} : s.uuid = u).name]]

\* custom-instructions.js, buildConstraintMap: the constraints of every context
buildConstraintMap(contexts) ==
  [u \in DOMAIN contexts |-> [constraintsOf |-> contexts[u].serverName]]

IndexInit ==
  /\ env \in Environments
  /\ directory \in InitialDirectories
  /\ toolToServerMap = << >>
  /\ rb = [r \in RebuildSlots |-> IdleRebuild]
  /\ serverContexts = << >>
  /\ constraintMap = << >>
  /\ committed = << >>
  /\ lastDone = 0

\* the servers are reconfigured in the Pluggedin App
DirectoryChange(d) ==
  /\ d # directory
  /\ directory' = d
  /\ UNCHANGED <<env, toolToServerMap, rb, serverContexts, constraintMap, committed, lastDone>>
  /\ UNCHANGED <<sessionVars, dispatchVars, otherVars>>

CanStart(r) ==
  /\ rb[r].pc = "idle"
  /\ \A q \in RebuildSlots : q < r => rb[q].pc # "idle"

\* part_001:74-91, the ListTools handler up to its await of axios.get; without
\* API key or base URL it throws
ListToolsEnter(r) ==
  /\ CanStart(r)
  /\ IF env.apiKey /\ env.baseUrl
       THEN /\ rb' = [rb EXCEPT ![r] =
                 [IdleRebuild EXCEPT !.kind = "list", !.pc = "fetching", !.calls = 1]]
            /\ UNCHANGED lastDone
       ELSE /\ rb' = [rb EXCEPT ![r] =
                 [IdleRebuild EXCEPT !.kind = "list", !.pc = "done", !.outcome = "failed"]]
            /\ lastDone' = r
  /\ UNCHANGED <<env, directory, toolToServerMap, serverContexts, constraintMap, committed>>
  /\ UNCHANGED <<sessionVars, dispatchVars, otherVars>>

\* part_001:93-128, axios.get settles: the map is cleared and refilled and the
\* static tool plus the fetched tools are returned, or the handler throws
ListToolsSettle(r, ok) ==
  /\ rb[r].pc = "fetching" /\ rb[r].kind = "list"
  /\ IF ok
       THEN LET fetchedTools == ApiTools(directory)
                map == ListPopulate(<< >>, fetchedTools)
            IN  /\ toolToServerMap' = map
                /\ committed' = map
                /\ rb' = [rb EXCEPT ![r].pc = "done", ![r].outcome = "ok",
                            ![r].data = directory,
                            ![r].listed = << discoverToolsStaticTool >> \o
                               [i \in 1..Len(fetchedTools) |-> fetchedTools[i].name]]
       ELSE /\ rb' = [rb EXCEPT ![r].pc = "done", ![r].outcome = "failed"]
            /\ UNCHANGED <<toolToServerMap, committed>>
  /\ lastDone' = r
  /\ UNCHANGED <<env, directory, serverContexts, constraintMap>>
  /\ UNCHANGED <<sessionVars, dispatchVars, otherVars>>

\* static-handlers.ts:255-275, handleDiscoverTools up to its await of
\* getMcpServers: arguments the schema rejects make parse throw; otherwise the
\* attempt is logged (logMcpActivity), the map is wiped and getMcpServers is
\* called
DiscoverEnter(r, valid) ==
  /\ CanStart(r)
  /\ IF valid
       THEN /\ toolToServerMap' = << >>
            /\ rb' = [rb EXCEPT ![r] =
                 [IdleRebuild EXCEPT !.kind = "discover", !.pc = "fetching", !.calls = 2]]
       ELSE /\ rb' = [rb EXCEPT ![r] =
                 [IdleRebuild EXCEPT !.kind = "discover", !.pc = "done",
                    !.outcome = "invalid", !.valid = FALSE]]
            /\ UNCHANGED toolToServerMap
  /\ UNCHANGED <<env, directory, serverContexts, constraintMap, committed, lastDone>>
  /\ UNCHANGED <<sessionVars, dispatchVars, otherVars>>

\* handleDiscoverTools registering the tools in the reverse of the enumeration
\* order, so that of two tools with one prefixed name the first one stays
DiscoverSettleFirstWins(r, ok) ==
  /\ rb[r].pc = "fetching" /\ rb[r].kind = "discover"
  /\ IF ok
       THEN LET pairs == FlattenTools(directory)
                map == DiscoverPopulate(toolToServerMap,
                         [i \in 1..Len(pairs) |-> pairs[Len(pairs) + 1 - i]])
                contexts == buildServerContextsMap(directory)
            IN  /\ toolToServerMap' = map
                /\ serverContexts' = contexts
                /\ constraintMap' = buildConstraintMap(contexts)
                /\ committed' = map
                /\ rb' = [rb EXCEPT ![r].pc = "done", ![r].outcome = "ok",
                            ![r].data = directory, ![r].calls = @ + 1]
       ELSE /\ rb' = [rb EXCEPT ![r].pc = "done", ![r].outcome = "failed",
                         ![r].calls = @ + 1]
            /\ UNCHANGED <<toolToServerMap, serverContexts, constraintMap, committed>>
  /\ lastDone' = r
  /\ UNCHANGED <<env, directory>>
  /\ UNCHANGED <<sessionVars, dispatchVars, otherVars>>

\* static-handlers.ts:275-377, getMcpServers settles: on failure the handler
\* throws; otherwise the server contexts and the constraint map are replaced
\* and every tool of every server is written onto the map; either way the
\* outcome is logged (logMcpActivity)
DiscoverSettle(r, ok) ==
  /\ rb[r].pc = "fetching" /\ rb[r].kind = "discover"
  /\ IF ok
       THEN LET map == DiscoverPopulate(toolToServerMap, FlattenTools(directory))
                contexts == buildServerContextsMap(directory)
            IN  /\ toolToServerMap' = map
                /\ serverContexts' = contexts
                /\ constraintMap' = buildConstraintMap(contexts)
                /\ committed' = map
                /\ rb' = [rb EXCEPT ![r].pc = "done", ![r].outcome = "ok",
                            ![r].data = directory, ![r].calls = @ + 1]
       ELSE /\ rb' = [rb EXCEPT ![r].pc = "done", ![r].outcome = "failed",
                         ![r].calls = @ + 1]
            /\ UNCHANGED <<toolToServerMap, serverContexts, constraintMap, committed>>
  /\ lastDone' = r
  /\ UNCHANGED <<env, directory>>
  /\ UNCHANGED <<sessionVars, dispatchVars, otherVars>>

\* no two tools of data share a prefixed name
CollisionFree(data) ==
  LET pairs == FlattenTools(data)
  IN  \A i, j \in 1..Len(pairs) :
        i # j => prefixedName(pairs[i].server.name, pairs[i].tool)
                   # prefixedName(pairs[j].server.name, pairs[j].tool)

CollisionFreeDirectories == {d \in Directories : CollisionFree(d)}

IndexNextOver(dirs) ==
  \/ \E d \in dirs : DirectoryChange(d)
  \/ \E r \in RebuildSlots : ListToolsEnter(r)
  \/ \E r \in RebuildSlots, ok \in BOOLEAN : ListToolsSettle(r, ok)
  \/ \E r \in RebuildSlots, valid \in BOOLEAN : DiscoverEnter(r, valid)
  \/ \E r \in RebuildSlots, ok \in BOOLEAN : DiscoverSettle(r, ok)

IndexNext == IndexNextOver(Directories)


(***************************************************************************)
(* tools/call dispatch: the CallTool handler (src/unnamed/part_001) and    *)
(* CallPluggedinToolTool.execute (src/unnamed/part_002)                    *)
(***************************************************************************)
\* number of tools/call activations of one behaviour; each uses the getSession
\* slot of its own number
MaxRequests == 2

ReqSlots == 1..MaxRequests

\* request._meta as the client sends it: absent, or an object with a progress
\* token and possibly further fields
NoMeta == [present |-> FALSE, progressToken |-> "undefined", traceId |-> "undefined"]
MetaToken == [present |-> TRUE, progressToken |-> "tok", traceId |-> "undefined"]
MetaTokenTrace == [present |-> TRUE, progressToken |-> "tok", traceId |-> "tr"]

\* the arguments and metadata of an invocation
Payloads ==
  {[args |-> "a1", meta |-> MetaTokenTrace], [args |-> "a1", meta |-> MetaToken],
   [args |-> "undefined", meta |-> NoMeta]}

\* names a client asks for
GitHub_create_issue == <<"GitHub", "_", "create", "_", "issue">>
GitHub_list == <<"GitHub", "_", "list">>
GitHub__create_issue == <<"GitHub", "_", "_", "create", "_", "issue">>
GitHub__list == <<"GitHub", "_", "_", "list">>
foo_bar == <<"foo", "_", "bar">>
CallToolNames == {GitHub_create_issue, GitHub_list, foo_bar, discoverToolsStaticTool}
ToolCallNames == {GitHub__create_issue, GitHub__list, foo_bar}

\* what getMcpServers(true) can return, in the order of Object.entries
ServerConfigs ==
  { << [uuid |-> <<"s1">>, params |-> "p1"], [uuid |-> <<"s2">>, params |-> "p1"] >>,
    << [uuid |-> <<"s2">>, params |-> "p2"] >> }

\* profile capabilities and inactive tools (keys `${uuid}:${tool.name}`)
Profiles ==
  {[toolsManagement |-> FALSE, inactive |-> {}],
   [toolsManagement |-> TRUE, inactive |-> {<< <<"s2">>, <<"list">> >>}]}

\* what a connected downstream server reports: getServerVersion().name,
\* getServerCapabilities().tools, and its tools/list result
Downstream(uuid) ==
  IF uuid = <<"s1">>
    THEN [name |-> <<"GitHub">>, toolsCap |-> TRUE,
          tools |-> << <<"create", "_", "issue">> >>]
    ELSE [name |-> <<"Git", " ", "Hub">>, toolsCap |-> TRUE, tools |-> << <<"list">> >>]

\* params.name || uuid of a configured server (part_002:137)
ConfigName(uuid) == Downstream(uuid).name

\* answers of a downstream server to tools/call: a result, or a rejection
OkResult == [content |-> "r1", isError |-> FALSE]
ErrorResult == [content |-> "e1", isError |-> TRUE]
NoValue == [content |-> "none", isError |-> FALSE]
DownstreamAnswers ==
  {[rejected |-> FALSE, value |-> OkResult], [rejected |-> FALSE, value |-> ErrorResult],
   [rejected |-> TRUE, value |-> NoValue]}

NoAnswer == [rejected |-> FALSE, value |-> NoValue]
NoRequest == [to |-> 0, name |-> << >>, args |-> "undefined", meta |-> NoMeta]
NoToolInfo == [originalName |-> << >>, serverUuid |-> << >>]
NoOutcome == [type |-> "none", kind |-> "none", tool |-> << >>, server |-> << >>, value |-> NoValue]

\* the handler throws an Error whose message names tool and/or server
Thrown(kind, tool, server) ==
  [type |-> "thrown", kind |-> kind, tool |-> tool, server |-> server, value |-> NoValue]

\* the handler returns value
ResultOf(value) ==
  [type |-> "result", kind |-> "none", tool |-> << >>, server |-> << >>, value |-> value]

IdleRequest ==
  [kind |-> "none", pc |-> "idle", name |-> << >>, args |-> "undefined", meta |-> NoMeta,
   toolInfo |-> NoToolInfo, servers |-> << >>, i |-> 0, sent |-> NoRequest,
   answer |-> NoAnswer, outcome |-> NoOutcome, forwards |-> 0]

DispatchInit ==
  /\ serverParams \in ServerConfigs
  /\ profile \in Profiles
  /\ rq = [c \in ReqSlots |-> IdleRequest]

\* the servers are reconfigured in the Pluggedin App: getMcpServers(true)
\* returns other parameters from now on
ServersReconfigured(cfg) ==
  /\ cfg # serverParams
  /\ serverParams' = cfg
  /\ UNCHANGED <<sessionVars, indexVars, profile, rq, otherVars>>

CanRequest(c) ==
  /\ rq[c].pc = "idle"
  /\ \A d \in ReqSlots : d < c => rq[d].pc # "idle"

Finish(c, req, outcome) ==
  rq' = [rq EXCEPT ![c] = [req EXCEPT !.pc = "done", !.outcome = outcome]]

\* the CallTool handler answering a lookup miss with an empty success
CallToolEnterSilent(c, name, payload) ==
  LET req == [IdleRequest EXCEPT !.kind = "callTool", !.name = name,
                !.args = payload.args, !.meta = payload.meta]
  IN  /\ CanRequest(c)
      /\ IF name = discoverToolsStaticTool
           THEN IF env.apiKey /\ env.baseUrl
                  THEN rq' = [rq EXCEPT ![c] = [req EXCEPT !.pc = "ct_discover"]]
                  ELSE Finish(c, req, Thrown("NotConfigured", << >>, << >>))
           ELSE IF name \notin DOMAIN toolToServerMap
                  THEN Finish(c, req, ResultOf(NoValue))
                  ELSE rq' = [rq EXCEPT ![c] =
                         [req EXCEPT !.pc = "ct_servers", !.toolInfo = toolToServerMap[name]]]
      /\ UNCHANGED <<sessionVars, indexVars, serverParams, profile, otherVars>>

\* the CallTool handler looking the name up in toolToServerMap before its test
\* for the static tool
CallToolEnterLookupFirst(c, name, payload) ==
  LET req == [IdleRequest EXCEPT !.kind = "callTool", !.name = name,
                !.args = payload.args, !.meta = payload.meta]
  IN  /\ CanRequest(c)
      /\ IF name \in DOMAIN toolToServerMap
           THEN rq' = [rq EXCEPT ![c] =
                  [req EXCEPT !.pc = "ct_servers", !.toolInfo = toolToServerMap[name]]]
           ELSE IF name = discoverToolsStaticTool
                  THEN IF env.apiKey /\ env.baseUrl
                         THEN rq' = [rq EXCEPT ![c] = [req EXCEPT !.pc = "ct_discover"]]
                         ELSE Finish(c, req, Thrown("NotConfigured", << >>, << >>))
                  ELSE Finish(c, req, Thrown("MethodNotFound", name, << >>))
      /\ UNCHANGED <<sessionVars, indexVars, serverParams, profile, otherVars>>

\* part_001:132-180, the CallTool handler up to its first await: the static
\* discovery tool, then the lookup in toolToServerMap
CallToolEnter(c, name, payload) ==
  LET req == [IdleRequest EXCEPT !.kind = "callTool", !.name = name,
                !.args = payload.args, !.meta = payload.meta]
  IN  /\ CanRequest(c)
      /\ IF name = discoverToolsStaticTool
           THEN IF env.apiKey /\ env.baseUrl
                  THEN rq' = [rq EXCEPT ![c] = [req EXCEPT !.pc = "ct_discover"]]
                  ELSE Finish(c, req, Thrown("NotConfigured", << >>, << >>))
           ELSE IF name \notin DOMAIN toolToServerMap
                  THEN Finish(c, req, Thrown("MethodNotFound", name, << >>))
                  ELSE rq' = [rq EXCEPT ![c] =
                         [req EXCEPT !.pc = "ct_servers", !.toolInfo = toolToServerMap[name]]]
      /\ UNCHANGED <<sessionVars, indexVars, serverParams, profile, otherVars>>

\* part_001:154-173, the discovery trigger's axios.post settles
CallToolDiscoverSettle(c, ok) ==
  /\ rq[c].pc = "ct_discover"
  /\ IF ok
       THEN Finish(c, rq[c], ResultOf([content |-> "Discovery process initiated.",
                                        isError |-> FALSE]))
       ELSE Finish(c, rq[c], Thrown("DiscoveryFailed", << >>, << >>))
  /\ UNCHANGED <<sessionVars, indexVars, serverParams, profile, otherVars>>

ParamsOf(servers, uuid) ==
  LET i == CHOOSE j \in 1..Len(servers) : servers[j].uuid = uuid
  IN  servers[i].params

\* part_001:186-193, getMcpServers(true) settles: without parameters for the
\* server the handler throws, otherwise it calls getSession
CallToolServers(c) ==
  LET uuid == rq[c].toolInfo.serverUuid
  IN  /\ rq[c].pc = "ct_servers"
      /\ IF \A j \in 1..Len(serverParams) : serverParams[j].uuid # uuid
           THEN /\ Finish(c, rq[c], Thrown("ConfigNotFound", rq[c].name, uuid))
                /\ UNCHANGED <<sessions, objs, gs>>
           ELSE /\ GetSessionEnter(c, uuid, ParamsOf(serverParams, uuid))
                /\ rq' = [rq EXCEPT ![c].pc = "ct_session"]
      /\ UNCHANGED <<ca, indexVars, serverParams, profile, otherVars>>

\* the CallTool handler without its test of the session
CallToolAfterSessionUnchecked(c) ==
  /\ rq[c].pc = "ct_session"
  /\ gs[c].pc = "returned"
  /\ rq' = [rq EXCEPT ![c].pc = "ct_call", ![c].forwards = @ + 1,
              ![c].sent = [to |-> gs[c].result, name |-> rq[c].toolInfo.originalName,
                            args |-> rq[c].args, meta |-> rq[c].meta]]
  /\ UNCHANGED <<sessionVars, indexVars, serverParams, profile, otherVars>>

\* part_001:193-207, getSession has returned: without a session the handler
\* throws, otherwise it sends tools/call downstream
CallToolAfterSession(c) ==
  /\ rq[c].pc = "ct_session"
  /\ gs[c].pc = "returned"
  /\ IF gs[c].result = Absent
       THEN Finish(c, rq[c], Thrown("SessionNotFound", << >>, rq[c].toolInfo.serverUuid))
       ELSE rq' = [rq EXCEPT ![c].pc = "ct_call", ![c].forwards = @ + 1,
                     ![c].sent = [to |-> gs[c].result, name |-> rq[c].toolInfo.originalName,
                                   args |-> rq[c].args, meta |-> rq[c].meta]]
  /\ UNCHANGED <<sessionVars, indexVars, serverParams, profile, otherVars>>

\* the CallTool handler sending the request once more after a rejection
CallToolSettleRetry(c, answer) ==
  /\ rq[c].pc = "ct_call"
  /\ IF answer.rejected
       THEN IF rq[c].forwards < 2
              THEN rq' = [rq EXCEPT ![c].forwards = @ + 1, ![c].answer = answer]
              ELSE Finish(c, [rq[c] EXCEPT !.answer = answer],
                          Thrown("Downstream", << >>, << >>))
       ELSE Finish(c, [rq[c] EXCEPT !.answer = answer], ResultOf(answer.value))
  /\ UNCHANGED <<sessionVars, indexVars, serverParams, profile, otherVars>>

\* part_001:202-223, the downstream request settles: its result is returned, a
\* rejection is rethrown
CallToolSettle(c, answer) ==
  /\ rq[c].pc = "ct_call"
  /\ IF answer.rejected
       THEN Finish(c, [rq[c] EXCEPT !.answer = answer], Thrown("Downstream", << >>, << >>))
       ELSE Finish(c, [rq[c] EXCEPT !.answer = answer], ResultOf(answer.value))
  /\ UNCHANGED <<sessionVars, indexVars, serverParams, profile, otherVars>>

\* CallPluggedinToolSchema: arguments default to {}
parseArguments(args) == IF args = "undefined" THEN "empty" ELSE args

\* part_002:84-91, the name findClientForTool compares with, and whether the
\* tool counts as inactive
currentPrefixedName(serverName, toolName) ==
  sanitizeName(serverName) \o <<"_", "_">> \o toolName

\* an inactive-tools lookup whose key is built in the wrong order
isInactiveByName(uuid, toolName) ==
  profile.toolsManagement /\ <<toolName, uuid>> \in profile.inactive

isInactive(uuid, toolName) ==
  profile.toolsManagement /\ <<uuid, toolName>> \in profile.inactive

\* part_002:83-92, result.tools.find(...)
foundTool(uuid, prefixedToolName) ==
  \E j \in 1..Len(Downstream(uuid).tools) :
    LET toolName == Downstream(uuid).tools[j]
    IN  /\ currentPrefixedName(Downstream(uuid).name, toolName) = prefixedToolName
        /\ ~isInactive(uuid, toolName)

\* String.prototype.substring(n)
substring(str, n) == SubSeq(str, n + 1, Len(str))

\* part_002:120-146, execute when findClientForTool found no client (the API
\* key being set): the Error it throws
notFoundError(prefixedToolName, servers) ==
  IF /\ profile.toolsManagement
     /\ \E j \in 1..Len(servers) :
          LET serverName == ConfigName(servers[j].uuid)
              prefix == sanitizeName(serverName) \o <<"_", "_">>
          IN  /\ startsWith(prefixedToolName, prefix)
              /\ substring(prefixedToolName, Len(prefix)) # << >>
              /\ <<servers[j].uuid, substring(prefixedToolName, Len(prefix))>>
                   \in profile.inactive
    THEN Thrown("ToolInactive", prefixedToolName, << >>)
    ELSE Thrown("UnknownOrInactive", prefixedToolName, << >>)

\* part_002:68-70 and 105, 120-146: the loop of findClientForTool reaches
\* server i and calls getSession for it, or is past the last server
ToolCallIterate(c, req, i) ==
  IF i > Len(req.servers)
    THEN /\ Finish(c, req, notFoundError(req.name, req.servers))
         /\ UNCHANGED <<sessions, objs, gs>>
    ELSE /\ GetSessionEnter(c, req.servers[i].uuid, req.servers[i].params)
         /\ rq' = [rq EXCEPT ![c] = [req EXCEPT !.pc = "tc_session", !.i = i]]

\* part_002:109-128 with 49-61, execute up to its first await: without API key
\* findClientForTool returns null and execute returns a configuration error
ToolCallEnter(c, name, payload) ==
  LET req == [IdleRequest EXCEPT !.kind = "toolCall", !.name = name,
                !.args = parseArguments(payload.args), !.meta = payload.meta]
  IN  /\ CanRequest(c)
      /\ IF ~env.apiKey
           THEN Finish(c, req, ResultOf([content |-> "Configuration Error", isError |-> TRUE]))
           ELSE rq' = [rq EXCEPT ![c] = [req EXCEPT !.pc = "tc_servers"]]
      /\ UNCHANGED <<sessionVars, indexVars, serverParams, profile, otherVars>>

\* part_002:61-70, getMcpServers, getProfileCapabilities and getInactiveTools
\* have settled; the loop over the servers starts
ToolCallServers(c) ==
  /\ rq[c].pc = "tc_servers"
  /\ ToolCallIterate(c, [rq[c] EXCEPT !.servers = serverParams], 1)
  /\ UNCHANGED <<ca, indexVars, serverParams, profile, otherVars>>

\* part_002:70-81, getSession has returned: without a session or without the
\* tools capability the loop goes on, otherwise tools/list is sent
ToolCallAfterSession(c) ==
  /\ rq[c].pc = "tc_session"
  /\ gs[c].pc = "returned"
  /\ IF gs[c].result = Absent \/ ~Downstream(rq[c].servers[rq[c].i].uuid).toolsCap
       THEN ToolCallIterate(c, rq[c], rq[c].i + 1)
       ELSE /\ rq' = [rq EXCEPT ![c].pc = "tc_list"]
            /\ UNCHANGED <<sessions, objs, gs>>
  /\ UNCHANGED <<ca, indexVars, serverParams, profile, otherVars>>

\* part_002:78-104 and 149-179, tools/list settles: an error is ignored and the
\* loop goes on; a matching active tool ends the search and execute sends
\* tools/call with the name cut off the prefixed name
ToolCallListSettle(c, ok) ==
  LET uuid == rq[c].servers[rq[c].i].uuid
      serverName == Downstream(uuid).name
      originalToolName == substring(rq[c].name, Len(sanitizeName(serverName)) + 2)
  IN  /\ rq[c].pc = "tc_list"
      /\ IF ok /\ foundTool(uuid, rq[c].name)
           THEN /\ IF originalToolName = << >>
                     THEN Finish(c, rq[c], Thrown("NoOriginalName", rq[c].name, << >>))
                     ELSE rq' = [rq EXCEPT ![c].pc = "tc_call", ![c].forwards = @ + 1,
                                   ![c].sent =
                                     [to |-> gs[c].result, name |-> originalToolName,
                                      args |-> rq[c].args,
                                      meta |-> [present |-> TRUE,
                                                progressToken |-> rq[c].meta.progressToken,
                                                traceId |-> "undefined"]]]
                /\ UNCHANGED <<sessions, objs, gs>>
           ELSE ToolCallIterate(c, rq[c], rq[c].i + 1)
      /\ UNCHANGED <<ca, indexVars, serverParams, profile, otherVars>>

\* part_002:167-187, the downstream request settles: its result is returned, a
\* rejection is rethrown
ToolCallSettle(c, answer) ==
  /\ rq[c].pc = "tc_call"
  /\ IF answer.rejected
       THEN Finish(c, [rq[c] EXCEPT !.answer = answer], Thrown("Downstream", << >>, << >>))
       ELSE Finish(c, [rq[c] EXCEPT !.answer = answer], ResultOf(answer.value))
  /\ UNCHANGED <<sessionVars, indexVars, serverParams, profile, otherVars>>

DispatchNext ==
  \/ \E cfg \in ServerConfigs : ServersReconfigured(cfg)
  \/ \E c \in ReqSlots, n \in CallToolNames, p \in Payloads : CallToolEnter(c, n, p)
  \/ \E c \in ReqSlots, ok \in BOOLEAN : CallToolDiscoverSettle(c, ok)
  \/ \E c \in ReqSlots : CallToolServers(c)
  \/ \E c \in ReqSlots : CallToolAfterSession(c)
  \/ \E c \in ReqSlots, a \in DownstreamAnswers : CallToolSettle(c, a)
  \/ \E c \in ReqSlots, n \in ToolCallNames, p \in Payloads : ToolCallEnter(c, n, p)
  \/ \E c \in ReqSlots : ToolCallServers(c)
  \/ \E c \in ReqSlots : ToolCallAfterSession(c)
  \/ \E c \in ReqSlots, ok \in BOOLEAN : ToolCallListSettle(c, ok)
  \/ \E c \in ReqSlots, a \in DownstreamAnswers : ToolCallSettle(c, a)
  \/ \E c \in ReqSlots, k \in SessionKeys, ok \in BOOLEAN : TeardownSettle(c, k, ok)
  \/ \E c \in ReqSlots : AfterTeardown(c)
  \/ \E c \in ReqSlots, ok \in BOOLEAN : ConnectSettle(c, ok)

(***************************************************************************)
(* Fan-out over the servers: GetPluggedinToolsTool.execute                 *)
(* (src/unnamed/part_003) and reportAllTools (src/src/report-tools.ts)     *)
(***************************************************************************)
\* number of fan-out activations of one behaviour, one after the other
MaxRuns == 2

\* branch j of a fan-out is the callback of the j-th entry of serverParams; it
\* uses the getSession slot of its number
BranchSlots == 1..Cardinality(ServerUuids)

FanoutKinds == {"getTools", "report"}

IdleBranch == [pc |-> "none", status |-> "none"]

NoList == [type |-> "none", tools |-> << >>]

\* the handler returns the list tools (as JSON text)
ListOf(tools) == [type |-> "list", tools |-> tools]

IdleFanout ==
  [kind |-> "none", pc |-> "idle", runs |-> 0, servers |-> << >>,
   br |-> [j \in BranchSlots |-> IdleBranch],
   allProxiedTools |-> << >>, reported |-> << >>, result |-> NoList]

FanoutInit == ft = IdleFanout

\* sessions.ts:15-25, what getSession(sessionKey, uuid, params) leaves of its
\* activation at its first await (or at its return on a registry hit)
enteredCall(uuid, params) ==
  LET sessionKey == getSessionKey(uuid, params)
  IN  IF sessionKey \in DOMAIN sessions
        THEN [IdleCall EXCEPT !.pc = "returned", !.key = sessionKey, !.uuid = uuid,
                !.params = params, !.result = sessions[sessionKey]]
        ELSE [IdleCall EXCEPT !.pc = "teardown", !.key = sessionKey, !.uuid = uuid,
                !.params = params, !.pending = old_session_keys(uuid),
                !.old = {sessions[k] : k \in old_session_keys(uuid)}]

\* part_003:83-85, Object.entries(serverParams).map(async ...): every callback
\* runs to its await of getSession, and every getSession to its first await,
\* before the fan-out suspends on Promise.allSettled
StartBranches(servers) ==
  LET calls == [j \in 1..Len(servers) |-> enteredCall(servers[j].uuid, servers[j].params)]
  IN  /\ gs' = [c \in Slots |-> IF c <= Len(servers) THEN calls[c] ELSE gs[c]]
      /\ objs' = InvokeCleanup(objs, UNION {calls[j].old : j \in 1..Len(servers)})

\* part_003:101-124, the tools of a server as the aggregate lists them: the
\* inactive ones filtered out, the others under their prefixed names
toolsWithSource(uuid) ==
  LET serverName == Downstream(uuid).name
      active == SelectSeq(Downstream(uuid).tools, LAMBDA t : ~isInactive(uuid, t))
  IN  [i \in 1..Len(active) |->
         [name |-> currentPrefixedName(serverName, active[i]), description |-> serverName]]

\* part_003:55-63 and report-tools.ts:116-120, the fan-out up to its first
\* await; get_tools without API key returns the empty list
FanoutEnter(kind) ==
  LET f == [IdleFanout EXCEPT !.kind = kind, !.runs = ft.runs]
  IN  /\ ft.pc \in {"idle", "done"}
      /\ ft.runs < MaxRuns
      /\ IF kind = "getTools" /\ ~env.apiKey
           THEN ft' = [f EXCEPT !.pc = "done", !.runs = @ + 1, !.result = ListOf(<< >>)]
           ELSE ft' = [f EXCEPT !.pc = "fetching"]
      /\ UNCHANGED <<sessionVars, indexVars, dispatchVars, exceptFanout>>

\* part_003:65-85 and report-tools.ts:120-131, the fetches have settled:
\* without servers get_tools returns the empty list, otherwise the branches
\* start
FanoutServers(fetched) ==
  /\ ft.pc = "fetching"
  /\ IF fetched = << >>
       THEN /\ ft' = [ft EXCEPT !.pc = "done", !.runs = @ + 1,
                        !.result = IF ft.kind = "getTools" THEN ListOf(<< >>) ELSE NoList]
            /\ UNCHANGED <<gs, objs>>
       ELSE /\ ft' = [ft EXCEPT !.pc = "fanout", !.servers = fetched,
                        !.br = [j \in BranchSlots |->
                                  IF j <= Len(fetched)
                                    THEN [IdleBranch EXCEPT !.pc = "session"]
                                    ELSE IdleBranch]]
            /\ StartBranches(fetched)
  /\ UNCHANGED <<sessions, ca, indexVars, dispatchVars, exceptFanout>>

\* part_003:85-91 and report-tools.ts:131-142, getSession has returned to
\* branch j: without session or tools capability the branch ends, otherwise it
\* sends tools/list
BranchAfterSession(j) ==
  /\ ft.pc = "fanout"
  /\ ft.br[j].pc = "session"
  /\ gs[j].pc = "returned"
  /\ ft' = [ft EXCEPT !.br[j] =
              IF gs[j].result = Absent THEN [pc |-> "done", status |-> "nosession"]
              ELSE IF ~Downstream(ft.servers[j].uuid).toolsCap
                     THEN [pc |-> "done", status |-> "nocapability"]
                     ELSE [pc |-> "list", status |-> "none"]]
  /\ UNCHANGED <<sessionVars, indexVars, dispatchVars, exceptFanout>>

\* a branch whose failed listing throws away what the other branches collected
BranchListSettleAbort(j, ok) ==
  LET uuid == ft.servers[j].uuid
      report == [uuid |-> uuid, tools |-> Downstream(uuid).tools]
  IN  /\ ft.pc = "fanout"
      /\ ft.br[j].pc = "list"
      /\ IF ~ok
           THEN ft' = [ft EXCEPT !.br[j] = [pc |-> "done", status |-> "listerror"],
                                 !.allProxiedTools = << >>, !.reported = << >>]
           ELSE IF ft.kind = "getTools"
             THEN ft' = [ft EXCEPT !.br[j] = [pc |-> "done", status |-> "ok"],
                           !.allProxiedTools = @ \o toolsWithSource(uuid),
                           !.reported = IF profile.toolsManagement
                                          THEN Append(@, report) ELSE @]
             ELSE IF Downstream(uuid).tools # << >>
               THEN ft' = [ft EXCEPT !.br[j] = [pc |-> "report", status |-> "ok"],
                             !.reported = Append(@, report)]
               ELSE ft' = [ft EXCEPT !.br[j] = [pc |-> "done", status |-> "ok"]]
      /\ UNCHANGED <<sessionVars, indexVars, dispatchVars, exceptFanout>>

\* part_003:92-150 and report-tools.ts:144-175, tools/list of branch j settles:
\* an error is caught and ends the branch; get_tools pushes the server's tools
\* onto allProxiedTools (and reports them, without awaiting, under tools
\* management); reportAllTools reports them and awaits the report
BranchListSettle(j, ok) ==
  LET uuid == ft.servers[j].uuid
      report == [uuid |-> uuid, tools |-> Downstream(uuid).tools]
  IN  /\ ft.pc = "fanout"
      /\ ft.br[j].pc = "list"
      /\ IF ~ok
           THEN ft' = [ft EXCEPT !.br[j] = [pc |-> "done", status |-> "listerror"]]
           ELSE IF ft.kind = "getTools"
             THEN ft' = [ft EXCEPT !.br[j] = [pc |-> "done", status |-> "ok"],
                           !.allProxiedTools = @ \o toolsWithSource(uuid),
                           !.reported = IF profile.toolsManagement
                                          THEN Append(@, report) ELSE @]
             ELSE IF Downstream(uuid).tools # << >>
               THEN ft' = [ft EXCEPT !.br[j] = [pc |-> "report", status |-> "ok"],
                             !.reported = Append(@, report)]
               ELSE ft' = [ft EXCEPT !.br[j] = [pc |-> "done", status |-> "ok"]]
      /\ UNCHANGED <<sessionVars, indexVars, dispatchVars, exceptFanout>>

\* report-tools.ts:157-175, the awaited report of branch j settles; a rejection
\* is caught
BranchReportSettle(j, ok) ==
  /\ ft.pc = "fanout"
  /\ ft.br[j].pc = "report"
  /\ ft' = [ft EXCEPT !.br[j].pc = "done"]
  /\ UNCHANGED <<sessionVars, indexVars, dispatchVars, exceptFanout>>

\* part_003:152-166 and report-tools.ts:177-181, Promise.allSettled resumes the
\* fan-out once every branch has ended
FanoutReturn ==
  /\ ft.pc = "fanout"
  /\ \A j \in BranchSlots : ft.br[j].pc \in {"none", "done"}
  /\ ft' = [ft EXCEPT !.pc = "done", !.runs = @ + 1,
              !.result = IF ft.kind = "getTools" THEN ListOf(ft.allProxiedTools) ELSE NoList]
  /\ UNCHANGED <<sessionVars, indexVars, dispatchVars, exceptFanout>>

FanoutNext ==
  \/ \E kind \in FanoutKinds : FanoutEnter(kind)
  \/ \E fetched \in {serverParams, << >>} : FanoutServers(fetched)
  \/ \E j \in BranchSlots : BranchAfterSession(j)
  \/ \E j \in BranchSlots, ok \in BOOLEAN : BranchListSettle(j, ok)
  \/ \E j \in BranchSlots, ok \in BOOLEAN : BranchReportSettle(j, ok)
  \/ FanoutReturn
  \/ \E cfg \in ServerConfigs : ServersReconfigured(cfg)
  \/ \E c \in Slots, k \in SessionKeys, ok \in BOOLEAN : TeardownSettle(c, k, ok)
  \/ \E c \in Slots : AfterTeardown(c)
  \/ \E c \in Slots, ok \in BOOLEAN : ConnectSettle(c, ok)

(***************************************************************************)
(* resources/list: the ListResources handler (src/unnamed/part_001)        *)
(***************************************************************************)
\* number of ListResources activations of one behaviour
MaxListings == 2

ListingSlots == 1..MaxListings

\* response.data of GET /api/resources: absent, or an array of resources
NoData == << "undefined" >>
ResourceData == {NoData, << >>, << "res1" >>}

IdleListing == [pc |-> "idle", outcome |-> "none", resources |-> << >>]

\* request.params.uri of a resources/read request
Uris == {"res1", "res2"}

IdleRead == [pc |-> "idle", uri |-> "none", outcome |-> NoOutcome]

ListingInit ==
  /\ lr = [l \in ListingSlots |-> IdleListing]
  /\ rr = [x \in ListingSlots |-> IdleRead]

\* part_001:230-244, the ListResources handler up to its await of axios.get;
\* without API key or base URL it throws
ListResourcesEnter(l) ==
  /\ lr[l].pc = "idle"
  /\ \A m \in ListingSlots : m < l => lr[m].pc # "idle"
  /\ lr' = [lr EXCEPT ![l] =
              IF env.apiKey /\ env.baseUrl
                THEN [IdleListing EXCEPT !.pc = "fetching"]
                ELSE [IdleListing EXCEPT !.pc = "done", !.outcome = "failed"]]
  /\ UNCHANGED rr
  /\ UNCHANGED <<sessionVars, indexVars, dispatchVars, exceptListing>>

\* part_001:239-267, axios.get settles: the fetched resources (or []) are
\* returned, or the handler throws 'Failed to list resources'
ListResourcesSettle(l, ok, data) ==
  /\ lr[l].pc = "fetching"
  /\ lr' = [lr EXCEPT ![l] =
              IF ok
                THEN [pc |-> "done", outcome |-> "ok",
                      resources |-> IF data = NoData THEN << >> ELSE data]
                ELSE [pc |-> "done", outcome |-> "failed", resources |-> << >>]]
  /\ UNCHANGED rr
  /\ UNCHANGED <<sessionVars, indexVars, dispatchVars, exceptListing>>

\* the ReadResource handler answering with an empty result
ReadResourceEmpty(x, uri) ==
  /\ rr[x].pc = "idle"
  /\ \A y \in ListingSlots : y < x => rr[y].pc # "idle"
  /\ rr' = [rr EXCEPT ![x] = [pc |-> "done", uri |-> uri, outcome |-> ResultOf(NoValue)]]
  /\ UNCHANGED lr
  /\ UNCHANGED <<sessionVars, indexVars, dispatchVars, exceptListing>>

\* part_001:275-294, the ReadResource handler: no map from uri to a server is
\* kept any more, and the handler throws for every uri
ReadResource(x, uri) ==
  /\ rr[x].pc = "idle"
  /\ \A y \in ListingSlots : y < x => rr[y].pc # "idle"
  /\ rr' = [rr EXCEPT ![x] =
              [pc |-> "done", uri |-> uri,
               outcome |-> Thrown("ReadResourceUnsupported", << uri >>, << >>)]]
  /\ UNCHANGED lr
  /\ UNCHANGED <<sessionVars, indexVars, dispatchVars, exceptListing>>

\* resources/list and resources/read
ResourceNext ==
  \/ \E l \in ListingSlots : ListResourcesEnter(l)
  \/ \E l \in ListingSlots, ok \in BOOLEAN, data \in ResourceData : ListResourcesSettle(l, ok, data)
  \/ \E x \in ListingSlots, uri \in Uris : ReadResource(x, uri)

\* the listing handlers: tools/list and resources/list
ListingNext ==
  \/ \E d \in Directories : DirectoryChange(d)
  \/ \E r \in RebuildSlots : ListToolsEnter(r)
  \/ \E r \in RebuildSlots, ok \in BOOLEAN : ListToolsSettle(r, ok)
  \/ \E l \in ListingSlots : ListResourcesEnter(l)
  \/ \E l \in ListingSlots, ok \in BOOLEAN, data \in ResourceData : ListResourcesSettle(l, ok, data)

(***************************************************************************)
(* The TTL cache: src/src/cache.ts                                         *)
(***************************************************************************)
\* the clock stops at MaxTime
MaxTime == 4

Keys == {"k1", "k2"}
Data == {"d1", "d2"}

\* constructor(ttlMs)
TtlValues == {0, 1, 2}

\* what get returns for a key it does not find or finds expired
Null == "null"

NoGet == [key |-> "none", result |-> Null, at |-> 0]

CacheInit ==
  /\ cache = << >>
  /\ ttl \in TtlValues
  /\ now = 0
  /\ written = << >>
  /\ lastGet = NoGet

\* a clock tick after which a sweeper drops the entries older than ttl
TickSweep ==
  /\ now < MaxTime
  /\ now' = now + 1
  /\ cache' = [k \in {x \in DOMAIN cache : now + 1 - cache[x].timestamp <= ttl} |-> cache[k]]
  /\ UNCHANGED <<ttl, written, lastGet>>
  /\ UNCHANGED <<sessionVars, indexVars, dispatchVars, exceptCache>>

\* Date.now() advances
Tick ==
  /\ now < MaxTime
  /\ now' = now + 1
  /\ UNCHANGED <<cache, ttl, written, lastGet>>
  /\ UNCHANGED <<sessionVars, indexVars, dispatchVars, exceptCache>>

\* this.cache.get(key) as a value: the entry of key, or none
NoEntry == [data |-> Null, timestamp |-> 0 - 1]
Entry(key) == IF key \in DOMAIN cache THEN cache[key] ELSE NoEntry

\* a set that keeps the timestamp of the entry it replaces
SetKeepTimestamp(key, data) ==
  /\ cache' = (key :> [data |-> data,
                       timestamp |-> IF key \in DOMAIN cache THEN cache[key].timestamp ELSE now])
                 @@ cache
  /\ written' = (key :> [data |-> data, timestamp |-> now, replaced |-> Entry(key)]) @@ written
  /\ lastGet' = NoGet
  /\ UNCHANGED <<ttl, now>>
  /\ UNCHANGED <<sessionVars, indexVars, dispatchVars, exceptCache>>

\* a set that leaves an existing entry as it is
SetIfAbsent(key, data) ==
  /\ cache' = IF key \in DOMAIN cache THEN cache
              ELSE (key :> [data |-> data, timestamp |-> now]) @@ cache
  /\ written' = (key :> [data |-> data, timestamp |-> now, replaced |-> Entry(key)]) @@ written
  /\ lastGet' = NoGet
  /\ UNCHANGED <<ttl, now>>
  /\ UNCHANGED <<sessionVars, indexVars, dispatchVars, exceptCache>>

\* cache.ts:35-40, set(key, data)
Set(key, data) ==
  /\ cache' = (key :> [data |-> data, timestamp |-> now]) @@ cache
  /\ written' = (key :> [data |-> data, timestamp |-> now, replaced |-> Entry(key)]) @@ written
  /\ lastGet' = NoGet
  /\ UNCHANGED <<ttl, now>>
  /\ UNCHANGED <<sessionVars, indexVars, dispatchVars, exceptCache>>

\* a get that treats an entry as expired from age ttl on
GetExpireEarly(key) ==
  /\ IF key \notin DOMAIN cache
       THEN /\ lastGet' = [key |-> key, result |-> Null, at |-> now]
            /\ UNCHANGED cache
       ELSE IF now - cache[key].timestamp >= ttl
         THEN /\ cache' = Delete(cache, key)
              /\ lastGet' = [key |-> key, result |-> Null, at |-> now]
         ELSE /\ lastGet' = [key |-> key, result |-> cache[key].data, at |-> now]
              /\ UNCHANGED cache
  /\ UNCHANGED <<ttl, now, written>>
  /\ UNCHANGED <<sessionVars, indexVars, dispatchVars, exceptCache>>

\* cache.ts:15-28, get(key)
Get(key) ==
  /\ IF key \notin DOMAIN cache
       THEN /\ lastGet' = [key |-> key, result |-> Null, at |-> now]
            /\ UNCHANGED cache
       ELSE IF now - cache[key].timestamp > ttl
         THEN /\ cache' = Delete(cache, key)
              /\ lastGet' = [key |-> key, result |-> Null, at |-> now]
         ELSE /\ lastGet' = [key |-> key, result |-> cache[key].data, at |-> now]
              /\ UNCHANGED cache
  /\ UNCHANGED <<ttl, now, written>>
  /\ UNCHANGED <<sessionVars, indexVars, dispatchVars, exceptCache>>

\* cache.ts:46-48, invalidate(key)
Invalidate(key) ==
  /\ cache' = Delete(cache, key)
  /\ written' = Delete(written, key)
  /\ lastGet' = NoGet
  /\ UNCHANGED <<ttl, now>>
  /\ UNCHANGED <<sessionVars, indexVars, dispatchVars, exceptCache>>

\* cache.ts:53-55, invalidateAll()
InvalidateAll ==
  /\ cache' = << >>
  /\ written' = << >>
  /\ lastGet' = NoGet
  /\ UNCHANGED <<ttl, now>>
  /\ UNCHANGED <<sessionVars, indexVars, dispatchVars, exceptCache>>

\* cache.ts:60-62, size()
size == Cardinality(DOMAIN cache)

CacheNext ==
  \/ Tick
  \/ \E key \in Keys, data \in Data : Set(key, data)
  \/ \E key \in Keys : Get(key)
  \/ \E key \in Keys : Invalidate(key)
  \/ InvalidateAll

(***************************************************************************)
(* Shutdown: handleExit (src/src/index.ts) with the cleanup of createServer *)
(* (src/unnamed/part_001), which is cleanupAllSessions                     *)
(***************************************************************************)
\* number of handleExit activations: SIGINT, SIGTERM, stdin 'end' and 'close'
\* all run it, and nothing keeps a second one from starting
MaxExits == 2

ExitSlots == 1..MaxExits

IdleExit == [pc |-> "idle", pending |-> {}, invoked |-> {}]

ExitInit ==
  /\ ex = [h \in ExitSlots |-> IdleExit]
  /\ proc = [transport |-> "open", exited |-> FALSE, cleaningAtClose |-> {},
             uncleanedAtClose |-> {}]

\* the registered sessions on which cleanup() was never invoked
Uncleaned == {sessions[k] : k \in {x \in DOMAIN sessions : objs[sessions[x]].cleanups = 0}}

\* index.ts:68-69 with part_001:302-304 and sessions.ts:46-49, handleExit up
\* to its first await: cleanup() is invoked on every registered session
ExitEnter(h) ==
  /\ ex[h].pc = "idle"
  /\ \A g \in ExitSlots : g < h => ex[g].pc # "idle"
  /\ ex' = [ex EXCEPT ![h] = [pc |-> "cleanup", pending |-> DOMAIN sessions,
                             invoked |-> {sessions[k] : k \in DOMAIN sessions}]]
  /\ objs' = InvokeCleanup(objs, {sessions[k] : k \in DOMAIN sessions})
  /\ UNCHANGED <<sessions, gs, ca, proc>>
  /\ UNCHANGED <<indexVars, dispatchVars, exceptExit>>

\* sessions.ts:49-50, one cleanup() of this activation settles
ExitCleanupSettle(h, k, ok) ==
  /\ ex[h].pc = "cleanup"
  /\ k \in ex[h].pending
  /\ ex' = [ex EXCEPT ![h].pending = @ \ {k}]
  /\ sessions' = IF ok THEN Delete(sessions, k) ELSE sessions
  /\ UNCHANGED <<objs, gs, ca, proc>>
  /\ UNCHANGED <<indexVars, dispatchVars, exceptExit>>

\* index.ts:69-70, cleanup() has returned: transport.close() is called
ExitCloseTransport(h) ==
  /\ ex[h].pc = "cleanup"
  /\ ex[h].pending = {}
  /\ ex' = [ex EXCEPT ![h].pc = "transport"]
  /\ proc' = IF proc.transport = "open"
               THEN [proc EXCEPT !.transport = "closed",
                       !.cleaningAtClose = {g \in ExitSlots : ex[g].pc = "cleanup" /\ ex[g].pending # {}},
                       !.uncleanedAtClose = Uncleaned]
               ELSE proc
  /\ UNCHANGED <<sessionVars, indexVars, dispatchVars, exceptExit>>

\* index.ts:70-71, transport.close() settles: server.close() is called; a
\* rejection leaves handleExit as an unhandled rejection, which ends the process
ExitTransportSettle(h, ok) ==
  /\ ex[h].pc = "transport"
  /\ IF ok
       THEN /\ ex' = [ex EXCEPT ![h].pc = "server"]
            /\ UNCHANGED proc
       ELSE /\ ex' = [ex EXCEPT ![h].pc = "exited"]
            /\ proc' = [proc EXCEPT !.exited = TRUE]
  /\ UNCHANGED <<sessionVars, indexVars, dispatchVars, exceptExit>>

\* index.ts:71-72, server.close() settles: process.exit(0)
ExitServerSettle(h) ==
  /\ ex[h].pc = "server"
  /\ ex' = [ex EXCEPT ![h].pc = "exited"]
  /\ proc' = [proc EXCEPT !.exited = TRUE]
  /\ UNCHANGED <<sessionVars, indexVars, dispatchVars, exceptExit>>

\* the server whose sessions are opened while the process shuts down
ExitServers == {<<"s1">>}

\* process.exit has not been called
Running == ~proc.exited

\* the process until it exits: requests open sessions while shutdown signals
\* arrive
ExitNext ==
  \/ \E c \in Slots, u \in ExitServers, p \in ValidParams : Running /\ GetSession(c, u, p)
  \/ \E c \in Slots, k \in SessionKeys, ok \in BOOLEAN : Running /\ TeardownSettle(c, k, ok)
  \/ \E c \in Slots : Running /\ AfterTeardown(c)
  \/ \E c \in Slots, ok \in BOOLEAN : Running /\ ConnectSettle(c, ok)
  \/ \E h \in ExitSlots : Running /\ ExitEnter(h)
  \/ \E h \in ExitSlots, k \in SessionKeys, ok \in BOOLEAN : Running /\ ExitCleanupSettle(h, k, ok)
  \/ \E h \in ExitSlots : Running /\ ExitCloseTransport(h)
  \/ \E h \in ExitSlots, ok \in BOOLEAN : Running /\ ExitTransportSettle(h, ok)
  \/ \E h \in ExitSlots : Running /\ ExitServerSettle(h)

(***************************************************************************)
(* The static handlers that call the Pluggedin API                         *)
(* (src/src/handlers/static-handlers.ts)                                   *)
(***************************************************************************)
\* number of activations of these handlers in one behaviour
MaxStatic == 2

StaticSlots == 1..MaxStatic

\* static-handlers.ts:379-1185, the handlers of one shape: parse, test of key
\* and base URL, one axios call in a try, logMcpActivity on both outcomes
ApiStaticTools ==
  {"pluggedin_ask_knowledge_base", "pluggedin_send_notification",
   "pluggedin_list_notifications", "pluggedin_mark_notification_done",
   "pluggedin_delete_notification", "pluggedin_create_document",
   "pluggedin_list_documents", "pluggedin_search_documents",
   "pluggedin_get_document", "pluggedin_update_document"}

IdleStatic ==
  [tool |-> "none", pc |-> "idle", outcome |-> NoOutcome, valid |-> TRUE, calls |-> 0]

StaticInit == sh = [a \in StaticSlots |-> IdleStatic]

\* getApiKeySetupMessage(tool), returned with isError: false
SetupMessage == [content |-> "setup message", isError |-> FALSE]

\* the text made of the API's answer, returned with isError: false
ApiAnswer == [content |-> "api answer", isError |-> FALSE]

\* a handler of this shape that validates its arguments only after the test
\* of key and base URL, next to the axios call
StaticEnterValidateLate(a, tool, valid) ==
  LET act == [IdleStatic EXCEPT !.tool = tool, !.valid = valid]
  IN  /\ sh[a].pc = "idle"
      /\ \A b \in StaticSlots : b < a => sh[b].pc # "idle"
      /\ IF ~(env.apiKey /\ env.baseUrl)
           THEN sh' = [sh EXCEPT ![a] =
                  [act EXCEPT !.pc = "done", !.outcome = ResultOf(SetupMessage)]]
           ELSE sh' = [sh EXCEPT ![a] = [act EXCEPT !.pc = "api", !.calls = 1]]
      /\ UNCHANGED <<sessionVars, indexVars, dispatchVars, exceptStatic>>

\* static-handlers.ts:379-397 (and the same lines of the nine other handlers),
\* the handler up to its await of axios: parse throws on arguments the schema
\* rejects; without key or base URL the setup message is returned
StaticEnter(a, tool, valid) ==
  LET act == [IdleStatic EXCEPT !.tool = tool, !.valid = valid]
  IN  /\ sh[a].pc = "idle"
      /\ \A b \in StaticSlots : b < a => sh[b].pc # "idle"
      /\ IF ~valid
           THEN sh' = [sh EXCEPT ![a] =
                  [act EXCEPT !.pc = "done", !.outcome = Thrown("ZodError", << >>, << >>)]]
           ELSE IF ~(env.apiKey /\ env.baseUrl)
                  THEN sh' = [sh EXCEPT ![a] =
                         [act EXCEPT !.pc = "done", !.outcome = ResultOf(SetupMessage)]]
                  ELSE sh' = [sh EXCEPT ![a] = [act EXCEPT !.pc = "api", !.calls = 1]]
      /\ UNCHANGED <<sessionVars, indexVars, dispatchVars, exceptStatic>>

\* static-handlers.ts:399-450 (and the same lines of the other handlers), the
\* axios call settles: the outcome is logged (logMcpActivity); the answer is
\* returned, or an Error is thrown
StaticSettle(a, ok) ==
  /\ sh[a].pc = "api"
  /\ sh' = [sh EXCEPT ![a].pc = "done", ![a].calls = @ + 1,
               ![a].outcome = IF ok THEN ResultOf(ApiAnswer)
                              ELSE Thrown("ApiError", << >>, << >>)]
  /\ UNCHANGED <<sessionVars, indexVars, dispatchVars, exceptStatic>>

\* calls of the static handlers: the ones that call the API, and discovery
StaticNext ==
  \/ \E a \in StaticSlots, tool \in ApiStaticTools, valid \in BOOLEAN : StaticEnter(a, tool, valid)
  \/ \E a \in StaticSlots, ok \in BOOLEAN : StaticSettle(a, ok)
  \/ \E r \in RebuildSlots, valid \in BOOLEAN : DiscoverEnter(r, valid)
  \/ \E r \in RebuildSlots, ok \in BOOLEAN : DiscoverSettle(r, ok)

(***************************************************************************)
(* Specifications                                                          *)
(***************************************************************************)
OtherInit == FanoutInit /\ ListingInit /\ CacheInit /\ ExitInit /\ StaticInit

Init == SessionInit /\ IndexInit /\ DispatchInit /\ OtherInit

Next ==
  \/ SessionNext \/ IndexNext \/ DispatchNext \/ FanoutNext \/ ListingNext \/ CacheNext
  \/ ExitNext \/ StaticNext \/ ResourceNext

\* the whole proxy
Spec == Init /\ [][Next]_vars

\* an environment, directory, configuration and profile for the behaviours
\* that do not depend on them
QuietConfig ==
  /\ serverParams = << [uuid |-> <<"s2">>, params |-> "p2"] >>
  /\ ~profile.toolsManagement

\* the subsystems a behaviour does not exercise, in one initial state
QuietOther == ttl = 0

SessionSpecInit ==
  /\ Init
  /\ QuietConfig
  /\ QuietOther
  /\ env = [apiKey |-> TRUE, baseUrl |-> TRUE]
  /\ directory = DirGitHub

\* the session registry under direct getSession and cleanupAllSessions calls
SessionSpec == SessionSpecInit /\ [][SessionNext]_vars

IndexSpecInit == Init /\ QuietConfig /\ QuietOther

\* the capability index under listings, discoveries and directory changes
IndexSpec == IndexSpecInit /\ [][IndexNext]_vars

CollisionFreeNext == IndexNextOver(CollisionFreeDirectories)

\* the capability index when no two tools of the directory ever share a
\* prefixed name
CollisionFreeSpec == IndexSpecInit /\ [][CollisionFreeNext]_vars

\* the index as a ListTools request leaves it when the directory holds data
ListedIndexInit(data) ==
  /\ directory = data
  /\ toolToServerMap = ListPopulate(<< >>, ApiTools(data))
  /\ committed = toolToServerMap
  /\ lastDone = 1
  /\ rb = [r \in RebuildSlots |->
             IF r = 1
               THEN [IdleRebuild EXCEPT !.kind = "list", !.pc = "done", !.outcome = "ok",
                       !.data = data, !.calls = 1,
                       !.listed = << discoverToolsStaticTool >> \o
                          [i \in 1..Len(ApiTools(data)) |-> ApiTools(data)[i].name]]
               ELSE IdleRebuild]
  /\ serverContexts = << >>
  /\ constraintMap = << >>

\* the index a ListTools request leaves in an environment without API key or
\* base URL: the handler threw before it touched the map
UnlistedIndexInit(data) ==
  /\ directory = data
  /\ toolToServerMap = << >>
  /\ committed = << >>
  /\ lastDone = 1
  /\ rb = [r \in RebuildSlots |->
             IF r = 1
               THEN [IdleRebuild EXCEPT !.kind = "list", !.pc = "done", !.outcome = "failed"]
               ELSE IdleRebuild]
  /\ serverContexts = << >>
  /\ constraintMap = << >>

DispatchSpecInit ==
  /\ SessionInit
  /\ DispatchInit
  /\ OtherInit
  /\ QuietOther
  /\ env \in Environments
  /\ IF env.apiKey /\ env.baseUrl
       THEN ListedIndexInit(DirTwo)
       ELSE UnlistedIndexInit(DirTwo)

\* tools/call requests against an index built by an earlier listing
DispatchSpec == DispatchSpecInit /\ [][DispatchNext]_vars

\* a directory in which a server called pluggedin declares a tool called
\* discover_tools: GET /api/tools lists it under the static tool's name
DirShadow ==
  << [uuid |-> <<"s1">>, name |-> <<"pluggedin">>,
      tools |-> << <<"discover", "_", "tools">> >>],
     [uuid |-> <<"s2">>, name |-> <<"GitHub">>, tools |-> << <<"list">> >>] >>

ShadowSpecInit ==
  /\ SessionInit
  /\ DispatchInit
  /\ OtherInit
  /\ QuietOther
  /\ env \in Environments
  /\ IF env.apiKey /\ env.baseUrl
       THEN ListedIndexInit(DirShadow)
       ELSE UnlistedIndexInit(DirShadow)

\* the tools/call requests of the CallTool handler with the sessions they open
ShadowNext ==
  \/ \E cfg \in ServerConfigs : ServersReconfigured(cfg)
  \/ \E c \in ReqSlots, n \in CallToolNames, p \in Payloads : CallToolEnter(c, n, p)
  \/ \E c \in ReqSlots, ok \in BOOLEAN : CallToolDiscoverSettle(c, ok)
  \/ \E c \in ReqSlots : CallToolServers(c)
  \/ \E c \in ReqSlots : CallToolAfterSession(c)
  \/ \E c \in ReqSlots, a \in DownstreamAnswers : CallToolSettle(c, a)
  \/ \E c \in ReqSlots, k \in SessionKeys, ok \in BOOLEAN : TeardownSettle(c, k, ok)
  \/ \E c \in ReqSlots : AfterTeardown(c)
  \/ \E c \in ReqSlots, ok \in BOOLEAN : ConnectSettle(c, ok)

\* tools/call requests against an index that holds an entry under the static
\* tool's name
ShadowSpec == ShadowSpecInit /\ [][ShadowNext]_vars

\* requests whose network call may never be answered: tools/list, whose
\* axios.get carries timeout: 10000, and the static handlers, whose axios calls
\* carry none
LiveNext ==
  \/ \E r \in RebuildSlots : ListToolsEnter(r)
  \/ \E r \in RebuildSlots, ok \in BOOLEAN : ListToolsSettle(r, ok)
  \/ \E a \in StaticSlots, tool \in ApiStaticTools, valid \in BOOLEAN : StaticEnter(a, tool, valid)
  \/ \E a \in StaticSlots, ok \in BOOLEAN : StaticSettle(a, ok)

\* a call with a timeout settles, by its answer or by the expiry; a call
\* without one need not
LiveSpec ==
  /\ SessionSpecInit
  /\ [][LiveNext]_vars
  /\ \A r \in RebuildSlots : WF_vars(\E ok \in BOOLEAN : ListToolsSettle(r, ok))

\* discovery runs, overlapping, while the directory changes
RefreshNext ==
  \/ \E d \in Directories : DirectoryChange(d)
  \/ \E r \in RebuildSlots, valid \in BOOLEAN : DiscoverEnter(r, valid)
  \/ \E r \in RebuildSlots, ok \in BOOLEAN : DiscoverSettle(r, ok)

RefreshSpec == IndexSpecInit /\ [][RefreshNext]_vars

\* resources/read requests before and after resources/list requests
ResourceSpec == IndexSpecInit /\ [][ResourceNext]_vars

\* the static handlers under valid and invalid arguments, in every environment
StaticSpec == IndexSpecInit /\ [][StaticNext]_vars

\* tools/list and resources/list requests, overlapping, while the directory
\* changes
ListingSpec == IndexSpecInit /\ [][ListingNext]_vars

CacheSpecInit ==
  /\ Init
  /\ QuietConfig
  /\ env = [apiKey |-> TRUE, baseUrl |-> TRUE]
  /\ directory = DirGitHub

\* one Cache instance under set, get, invalidate and the passing of time
CacheSpec == CacheSpecInit /\ [][CacheNext]_vars

\* shutdown signals while sessions are opened
ExitSpec == SessionSpecInit /\ [][ExitNext]_vars

FanoutSpecInit == Init /\ QuietOther /\ directory = DirGitHub

\* get_tools and reportAllTools, one run after the other, while the servers
\* are reconfigured
FanoutSpec == FanoutSpecInit /\ [][FanoutNext]_vars

(***************************************************************************)
(* Claims about the session registry                                       *)
(***************************************************************************)
Started == {c \in Slots : gs[c].pc # "idle"}
Returned == {c \in Slots : gs[c].pc = "returned"}

\* every getSession call so far used one and the same sessionKey
SameKeyOnly == \A c, d \in Started : gs[c].key = gs[d].key

\* C1: while all getSession calls use the same sessionKey (overlapping calls
\* included) and no cleanupAllSessions ran, at most one transport is ever
\* connected and all calls that return a session return the same object
C1_OneTransportPerKey ==
  (SameKeyOnly /\ ca.pc = "idle") =>
    /\ Len(objs) <= 1
    /\ \A c, d \in Returned :
         (gs[c].result # Absent /\ gs[d].result # Absent)
           => gs[c].result = gs[d].result

\* C2: the registry never holds two sessions of one server uuid
C2_OneSessionPerServer ==
  \A u \in ServerUuids : Cardinality(old_session_keys(u)) <= 1

\* C3: a session found live under another key of the same uuid has its
\* cleanup invoked exactly once by the superseding getSession calls, and the
\* call that then connects returns a new session
C3_SupersededClosedOnce ==
  ca.pc = "idle" =>
    \A c \in Started :
      /\ \A i \in gs[c].old : objs[i].cleanups = 1
      /\ (gs[c].pc = "returned" /\ gs[c].result # Absent) => gs[c].result \notin gs[c].old

(***************************************************************************)
(* Claims about the capability index                                       *)
(***************************************************************************)
RebuildInProgress == \E r \in RebuildSlots : rb[r].pc = "fetching"
Quiescent == ~RebuildInProgress

\* the index a rebuild makes of the data it fetched, taken alone
BuiltBy(r) ==
  IF rb[r].kind = "list"
    THEN ListPopulate(<< >>, ApiTools(rb[r].data))
    ELSE DiscoverPopulate(<< >>, FlattenTools(rb[r].data))

\* C4: while a rebuild is in progress, a reader of toolToServerMap (the lookup
\* of the CallTool handler) finds the last completely built index, never an
\* emptied or half-filled map
C4_ReadersSeeCompleteIndex ==
  RebuildInProgress => toolToServerMap = committed

\* C5: once all rebuilds have completed (successfully), the index is the
\* result of the one that completed last, with no entry of another cycle
C5_LastCompletedWins ==
  (/\ Quiescent
   /\ lastDone # 0
   /\ \A r \in RebuildSlots : rb[r].pc = "done" => rb[r].outcome = "ok")
    => toolToServerMap = BuiltBy(lastDone)

\* C6: after a rebuild whose fetch failed, the index is the last-known-good
\* one (empty if there was none)
C6_FailedFetchKeepsLastGood ==
  (Quiescent /\ lastDone # 0 /\ rb[lastDone].outcome = "failed")
    => toolToServerMap = committed

\* C7: right after a successful rebuild, every tool of every enumerated server
\* resolves under its prefixed name to its own original name and server uuid
C7_ResolveRoundTrip ==
  (Quiescent /\ lastDone # 0 /\ rb[lastDone].outcome = "ok") =>
    LET pairs == FlattenTools(rb[lastDone].data)
    IN  \A i \in 1..Len(pairs) :
          LET n == prefixedName(pairs[i].server.name, pairs[i].tool)
          IN  /\ n \in DOMAIN toolToServerMap
              /\ toolToServerMap[n] =
                   [originalName |-> pairs[i].tool, serverUuid |-> pairs[i].server.uuid]

(***************************************************************************)
(* Claims about tools/call dispatch                                        *)
(***************************************************************************)
Requested == {c \in ReqSlots : rq[c].kind # "none"}

\* the requested name is no static tool and has no entry in the index: for the
\* CallTool handler the index is toolToServerMap, for tool_call it is the set of
\* prefixed names of the active tools the downstream servers list
Unregistered(c) ==
  IF rq[c].kind = "callTool"
    THEN rq[c].name # discoverToolsStaticTool /\ rq[c].name \notin DOMAIN toolToServerMap
    ELSE \A u \in ServerUuids : ~foundTool(u, rq[c].name)

\* the handler threw an Error whose message carries the requested name
NamesCapability(c) ==
  rq[c].outcome.type = "thrown" /\ rq[c].outcome.tool = rq[c].name

ConfigurationError == ResultOf([content |-> "Configuration Error", isError |-> TRUE])

\* C8 as stated: invoking an unregistered name forwards no tools/call
\* downstream and ends in an error that names the requested capability
C8_UnknownNamedError ==
  \A c \in Requested :
    Unregistered(c) =>
      /\ rq[c].sent = NoRequest
      /\ rq[c].pc = "done" => NamesCapability(c)

\* C8 amended: invoking an unregistered name forwards no tools/call downstream
\* and ends in an error that names the requested capability, or, for tool_call
\* without API key, in the configuration-error result (isError set)
C8_UnknownExplicitError ==
  \A c \in Requested :
    Unregistered(c) =>
      /\ rq[c].sent = NoRequest
      /\ rq[c].pc = "done" =>
           \/ NamesCapability(c)
           \/ /\ rq[c].kind = "toolCall"
              /\ ~env.apiKey
              /\ rq[c].outcome = ConfigurationError

\* an unregistered name was refused by the CallTool handler and another by
\* tool_call after it went through all servers
C8_Witness ==
  \E c, d \in Requested :
    /\ rq[c].kind = "callTool" /\ rq[c].pc = "done" /\ Unregistered(c)
    /\ rq[c].outcome = Thrown("MethodNotFound", rq[c].name, << >>)
    /\ rq[d].kind = "toolCall" /\ rq[d].pc = "done" /\ Unregistered(d)
    /\ rq[d].outcome = Thrown("UnknownOrInactive", rq[d].name, << >>)
    /\ rq[d].i > 0

\* the server whose session a request was sent to
ServerOf(id) == CHOOSE u \in ServerUuids : startsWith(objs[id].key, u \o <<"_">>)

\* the requested name is the target server's prefix followed by name
IsOriginalOf(c, name) ==
  LET server == Downstream(ServerOf(rq[c].sent.to))
      sep == IF rq[c].kind = "callTool" THEN <<"_">> ELSE <<"_", "_">>
  IN  /\ \E j \in 1..Len(server.tools) : server.tools[j] = name
      /\ rq[c].name = sanitizeName(server.name) \o sep \o name

\* C9: the request forwarded downstream carries the original name, the caller's
\* arguments (for tool_call: as parsed by its schema) and the caller's metadata
\* fields unchanged, and a downstream response is returned as it is
C9_ForwardedVerbatim ==
  \A c \in Requested :
    /\ rq[c].sent # NoRequest =>
         /\ IsOriginalOf(c, rq[c].sent.name)
         /\ rq[c].sent.args = rq[c].args
         /\ rq[c].sent.meta.progressToken = rq[c].meta.progressToken
         /\ rq[c].sent.meta.traceId = rq[c].meta.traceId
    /\ (rq[c].pc = "done" /\ rq[c].sent # NoRequest /\ ~rq[c].answer.rejected) =>
         rq[c].outcome = ResultOf(rq[c].answer.value)

\* CallTool requests whose name resolved in toolToServerMap
Resolved == {c \in Requested : rq[c].kind = "callTool" /\ rq[c].toolInfo # NoToolInfo}

\* getSession was not called for the request (no configuration for the server)
\* or returned nothing
NoSession(c) == gs[c].pc = "idle" \/ (gs[c].pc = "returned" /\ gs[c].result = Absent)

\* C10: a resolved invocation whose server has no configuration or whose
\* getSession returned nothing ends in an error naming the server, and nothing
\* is forwarded unless getSession returned a session
C10_UnreachableFails ==
  \A c \in Resolved :
    /\ rq[c].sent # NoRequest =>
         gs[c].pc = "returned" /\ gs[c].result # Absent /\ rq[c].sent.to = gs[c].result
    /\ (rq[c].pc = "done" /\ NoSession(c)) =>
         /\ rq[c].sent = NoRequest
         /\ rq[c].outcome.type = "thrown"
         /\ rq[c].outcome.kind = (IF gs[c].pc = "idle" THEN "ConfigNotFound" ELSE "SessionNotFound")
         /\ rq[c].outcome.server = rq[c].toolInfo.serverUuid

\* one resolved invocation failed for a missing session, another for a missing
\* configuration
C10_Witness ==
  \E c, d \in Resolved :
    /\ rq[c].pc = "done" /\ gs[c].pc = "returned" /\ gs[c].result = Absent
    /\ rq[c].outcome = Thrown("SessionNotFound", << >>, rq[c].toolInfo.serverUuid)
    /\ rq[d].pc = "done" /\ gs[d].pc = "idle"
    /\ rq[d].outcome = Thrown("ConfigNotFound", rq[d].name, rq[d].toolInfo.serverUuid)

(***************************************************************************)
(* Claims about the fan-outs                                               *)
(***************************************************************************)
\* the branches of the fan-out
Started11 == {j \in BranchSlots : ft.br[j].pc # "none"}

\* number of entries of seq equal to e
Count(seq, e) == Cardinality({i \in 1..Len(seq) : seq[i] = e})

\* C11: when a fan-out has returned, the aggregate holds every (active) tool of
\* every server whose branch succeeded exactly once under its prefixed name,
\* and nothing of a server whose branch failed (no session, listing error);
\* likewise the reports of reportAllTools
C11_AggregationIsolation ==
  (ft.pc = "done" /\ ft.servers # << >>) =>
    /\ ft.kind = "getTools" =>
         /\ \A i \in 1..Len(ft.result.tools) :
              \E j \in Started11 :
                /\ ft.br[j].status = "ok"
                /\ \E k \in 1..Len(toolsWithSource(ft.servers[j].uuid)) :
                     toolsWithSource(ft.servers[j].uuid)[k] = ft.result.tools[i]
         /\ \A j \in Started11 :
              ft.br[j].status = "ok" =>
                \A k \in 1..Len(toolsWithSource(ft.servers[j].uuid)) :
                  Count(ft.result.tools, toolsWithSource(ft.servers[j].uuid)[k]) = 1
    /\ \A i \in 1..Len(ft.reported) :
         \E j \in Started11 : ft.br[j].status = "ok" /\ ft.servers[j].uuid = ft.reported[i].uuid
    /\ ft.kind = "report" =>
         \A j \in Started11 :
           (ft.br[j].status = "ok" /\ Downstream(ft.servers[j].uuid).tools # << >>) =>
             Count(ft.reported, [uuid |-> ft.servers[j].uuid,
                                 tools |-> Downstream(ft.servers[j].uuid).tools]) = 1

\* get_tools has returned an aggregate of two servers of which one failed and
\* the other contributed its tools
C11_Witness ==
  /\ ft.kind = "getTools" /\ ft.pc = "done" /\ Len(ft.servers) = 2
  /\ \E j, k \in Started11 :
       /\ ft.br[j].status \in {"nosession", "listerror"}
       /\ ft.br[k].status = "ok"
       /\ ft.result.tools = toolsWithSource(ft.servers[k].uuid)
       /\ ft.result.tools # << >>

(***************************************************************************)
(* Claims about the listing handlers                                       *)
(***************************************************************************)
\* C12: a listing request (tools/list, resources/list) that has completed has
\* returned a list, never thrown
C12_ListingNeverThrows ==
  /\ \A r \in RebuildSlots :
       (rb[r].kind = "list" /\ rb[r].pc = "done") => rb[r].outcome = "ok"
  /\ \A l \in ListingSlots : lr[l].pc = "done" => lr[l].outcome = "ok"

\* C13: every completed tools/list request has answered with a list that
\* holds the static tool
C13_StaticAlwaysListed ==
  \A r \in RebuildSlots :
    (rb[r].kind = "list" /\ rb[r].pc = "done") =>
      \E i \in 1..Len(rb[r].listed) : rb[r].listed[i] = discoverToolsStaticTool

(***************************************************************************)
(* Claims about the cache                                                  *)
(***************************************************************************)
\* the last operation on its key was a get, and the key was set before and not
\* invalidated since
GotWritten == lastGet # NoGet /\ lastGet.key \in DOMAIN written

\* the time between the last set of the key and the get
Elapsed == lastGet.at - written[lastGet.key].timestamp

\* C14: a get of a key whose last set is no more than ttl ago, with no
\* invalidate in between, returns the value set
C14_CacheRoundTrip ==
  (GotWritten /\ Elapsed <= ttl) => lastGet.result = written[lastGet.key].data

\* a value was read back at the very end of its time to live
C14_Witness ==
  /\ GotWritten /\ ttl > 0 /\ Elapsed = ttl
  /\ lastGet.result = written[lastGet.key].data
  /\ lastGet.result \in Data

\* C15: get returns null and deletes the entry exactly when the entry is older
\* than ttl; an entry of age ttl is returned; after an expired get the entry
\* does not count in size()
C15_ExpiryOnRead ==
  GotWritten =>
    /\ (Elapsed > ttl) <=> (lastGet.result = Null)
    /\ (Elapsed > ttl) => lastGet.key \notin DOMAIN cache
    /\ (Elapsed > ttl) => size = Cardinality(DOMAIN cache \ {lastGet.key})
    /\ (Elapsed <= ttl) => lastGet.key \in DOMAIN cache
    /\ size <= Cardinality(DOMAIN written)

\* a get found its entry one tick older than ttl and removed it, while the
\* other key stayed
C15_Witness ==
  /\ GotWritten /\ Elapsed = ttl + 1
  /\ lastGet.result = Null
  /\ lastGet.key \notin DOMAIN cache
  /\ size = 1

(***************************************************************************)
(* Further claims about the session registry                               *)
(***************************************************************************)
\* C16: when cleanupAllSessions returns, cleanup has been invoked on every
\* session that was registered at its call, and the registry is empty
C16_CleanupAllEmpties ==
  ca.pc = "returned" =>
    /\ \A i \in ca.registered : objs[i].cleanups >= 1
    /\ ca.left = {}

\* getSession calls in which the teardown of a superseded session rejected
TeardownFailed == {c \in Started : gs[c].failed # {}}

\* C18: a getSession call whose teardown of a superseded session rejected does
\* not throw; it goes on to createPluggedinClient and connect, and the session
\* it returns is a new one, installed under the requested key
C18_TeardownFailureSwallowed ==
  \A c \in TeardownFailed :
    /\ gs[c].pc \in {"teardown", "connect", "returned"}
    /\ gs[c].pc = "returned" => (gs[c].tried \/ gs[c].params \in InvalidParams)
    /\ (gs[c].pc = "returned" /\ gs[c].result # Absent) =>
         /\ objs[gs[c].result].key = gs[c].key
         /\ gs[c].result \notin gs[c].old

\* a call whose teardown rejected has returned a new session that is
\* registered under its key
C18_Witness ==
  \E c \in TeardownFailed :
    /\ gs[c].pc = "returned" /\ gs[c].result # Absent
    /\ gs[c].key \in DOMAIN sessions
    /\ sessions[gs[c].key] = gs[c].result
    /\ gs[c].result \notin gs[c].old

\* getSession calls that returned nothing
ReturnedAbsent == {c \in Returned : gs[c].result = Absent}

\* C19: a getSession call that returns nothing had no transport or failed to
\* connect (nothing is ever answered from a remembered failure), and it has
\* registered nothing: whatever is registered under its key is the session of
\* another call with that key
C19_FailedConnectRegistersNothing ==
  \A c \in ReturnedAbsent :
    /\ gs[c].tried \/ gs[c].params \in InvalidParams
    /\ gs[c].key \in DOMAIN sessions =>
         \E d \in Started \ {c} :
           gs[d].key = gs[c].key /\ gs[d].result = sessions[gs[c].key]

\* a call failed to connect and returned nothing, and a later call with the
\* same key connected
C19_Witness ==
  \E c \in ReturnedAbsent, d \in Returned :
    /\ c < d
    /\ gs[c].tried
    /\ gs[d].key = gs[c].key
    /\ gs[d].tried /\ gs[d].result # Absent
    /\ sessions = (gs[d].key :> gs[d].result)

(***************************************************************************)
(* Claims about shutdown                                                   *)
(***************************************************************************)
\* C17: when the client transport is closed, no cleanup started by a shutdown
\* signal is still running and no registered session is left on which cleanup
\* was not invoked
C17_CleanupBeforeTransportClose ==
  proc.transport = "closed" =>
    /\ proc.cleaningAtClose = {}
    /\ proc.uncleanedAtClose = {}

\* C20: a tools/call whose name is the static tool's is handled by the local
\* branch of the handler: it takes no entry from toolToServerMap, opens no
\* session, sends nothing downstream, and ends with the outcome of the
\* discovery trigger, also while toolToServerMap holds an entry of that name
StaticCalls == {c \in ReqSlots : rq[c].kind = "callTool" /\ rq[c].name = discoverToolsStaticTool}

LocalOutcomes ==
  {ResultOf([content |-> "Discovery process initiated.", isError |-> FALSE]),
   Thrown("NotConfigured", << >>, << >>), Thrown("DiscoveryFailed", << >>, << >>)}

C20_StaticHandledLocally ==
  \A c \in StaticCalls :
    /\ rq[c].toolInfo = NoToolInfo
    /\ rq[c].sent = NoRequest
    /\ gs[c].pc = "idle"
    /\ rq[c].pc \in {"ct_discover", "done"}
    /\ rq[c].pc = "done" => rq[c].outcome \in LocalOutcomes

C20_Witness ==
  \E c \in StaticCalls :
    /\ discoverToolsStaticTool \in DOMAIN toolToServerMap
    /\ rq[c].pc = "done"
    /\ rq[c].outcome.type = "result"

\* C21: only the discovery trigger changes toolToServerMap: a step that
\* changes the map is a step of a handleDiscoverTools activation
C21_OnlyDiscoveryMutates ==
  [][toolToServerMap' # toolToServerMap =>
       \E r \in RebuildSlots : rb'[r] # rb[r] /\ rb'[r].kind = "discover"]_vars

\* C22: a static handler called with arguments its schema rejects ends with the
\* thrown validation error, has made no network call (logMcpActivity included),
\* and the step leaves toolToServerMap, serverContexts and constraintMap as
\* they were
InvalidStatic == {a \in StaticSlots : sh[a].pc # "idle" /\ ~sh[a].valid}
InvalidDiscover == {r \in RebuildSlots : rb[r].kind = "discover" /\ ~rb[r].valid}

Unconfigured == ~(env.apiKey /\ env.baseUrl)

C23_UnconfiguredListingEmpty ==
  \A r \in RebuildSlots :
    (Unconfigured /\ rb[r].kind = "list" /\ rb[r].pc = "done")
      => rb[r].outcome = "ok" /\ rb[r].calls = 0

\* C24: without API key or base URL, a call of a static handler that needs the
\* API ends in an error: a thrown Error or a result with isError
C24_UnconfiguredInvocationFails ==
  \A a \in StaticSlots :
    (Unconfigured /\ sh[a].pc = "done")
      => sh[a].outcome.type = "thrown" \/ sh[a].outcome.value.isError

\* C25: in every state toolToServerMap, serverContexts and constraintMap are
\* what one directory response gives (or all empty, before the first refresh)
FromOneResponse(data) ==
  /\ toolToServerMap = DiscoverPopulate(<< >>, FlattenTools(data))
  /\ serverContexts = buildServerContextsMap(data)
  /\ constraintMap = buildConstraintMap(buildServerContextsMap(data))

C25_IndexAndContextsTogether ==
  \E data \in Directories \cup {<< >>} : FromOneResponse(data)

Forwarded == {c \in ReqSlots : rq[c].forwards > 0}

C28_EveryRequestCompletes ==
  /\ \A r \in RebuildSlots : (rb[r].pc = "fetching") ~> (rb[r].pc = "done")
  /\ \A a \in StaticSlots : (sh[a].pc = "api") ~> (sh[a].pc = "done")

\* C29: after a successful discovery run, with no other run in progress, every
\* prefixed name of the fetched servers has the entry of the tool enumerated
\* last under that name; and when every successful run fetched the same server
\* list, the index holds these names only, so that it is the same after each
LastDiscovery ==
  {r \in RebuildSlots :
     /\ Quiescent /\ lastDone = r
     /\ rb[r].kind = "discover" /\ rb[r].outcome = "ok"}

SameListEveryRun(r) ==
  \A q \in RebuildSlots :
    (rb[q].pc = "done" /\ rb[q].outcome = "ok") => rb[q].data = rb[r].data

C29_LastWriteWins ==
  \A r \in LastDiscovery :
    LET pairs == FlattenTools(rb[r].data)
        nameOf(i) == prefixedName(pairs[i].server.name, pairs[i].tool)
        lastOf(i) == CHOOSE j \in 1..Len(pairs) :
                       /\ nameOf(j) = nameOf(i)
                       /\ \A k \in 1..Len(pairs) : nameOf(k) = nameOf(i) => k <= j
    IN  /\ \A i \in 1..Len(pairs) :
             /\ nameOf(i) \in DOMAIN toolToServerMap
             /\ toolToServerMap[nameOf(i)] =
                  [originalName |-> pairs[lastOf(i)].tool,
                   serverUuid |-> pairs[lastOf(i)].server.uuid]
        /\ SameListEveryRun(r) =>
             DOMAIN toolToServerMap = {nameOf(i) : i \in 1..Len(pairs)}

C29_Witness ==
  \E r \in LastDiscovery, q \in RebuildSlots :
    /\ q # r
    /\ rb[r].data = DirCollide
    /\ rb[q].pc = "done" /\ rb[q].outcome = "ok"
    /\ SameListEveryRun(r)

\* C30: an entry of the cache is the one its key's last set wrote, value and
\* timestamp; a get after a set that replaced an entry returns the new value
\* as long as no more than ttl has passed since that set, however old the
\* replaced entry was
Overwrote == GotWritten /\ written[lastGet.key].replaced # NoEntry

C30_SetOverwritesAndResets ==
  /\ \A k \in DOMAIN cache :
       /\ k \in DOMAIN written
       /\ cache[k].data = written[k].data
       /\ cache[k].timestamp = written[k].timestamp
  /\ Overwrote =>
       IF Elapsed <= ttl
         THEN lastGet.result = written[lastGet.key].data
         ELSE lastGet.result = Null

C30_Witness ==
  /\ Overwrote
  /\ written[lastGet.key].replaced.data # written[lastGet.key].data
  /\ lastGet.at - written[lastGet.key].replaced.timestamp > ttl
  /\ lastGet.result = written[lastGet.key].data

\* C31: a step in which the clock advances leaves the entries (and size) as
\* they were; an entry leaves the cache only in a get of its key that found it
\* older than ttl, or in an invalidate of its key or an invalidateAll; and a
\* step that changes the entries of two keys is an invalidateAll
Changed(k) ==
  \/ (k \in DOMAIN cache) # (k \in DOMAIN cache')
  \/ k \in DOMAIN cache /\ k \in DOMAIN cache' /\ cache'[k] # cache[k]

C31_NoBackgroundSweep ==
  [][/\ now' # now => cache' = cache
     /\ \A k \in DOMAIN cache \ DOMAIN cache' :
          \/ /\ lastGet' = [key |-> k, result |-> Null, at |-> now]
             /\ now - cache[k].timestamp > ttl
          \/ k \notin DOMAIN written'
     /\ \A k, j \in Keys :
          (k # j /\ Changed(k) /\ Changed(j)) => cache' = << >> /\ written' = << >>]_vars

C31_Witness ==
  /\ size = 2
  /\ \E k \in DOMAIN cache : now - cache[k].timestamp > ttl

\* C32: every session that was connected is registered in the registry or
\* has had its cleanup invoked
Registered(i) == \E k \in DOMAIN sessions : sessions[k] = i

C32_NoTransportLeak ==
  \A i \in DOMAIN objs : Registered(i) \/ objs[i].cleanups >= 1

\* C33: a getSession that returns from a registry hit returns a session whose
\* cleanup has not been invoked
C33_HitYieldsLiveSession ==
  [][\A c \in Slots :
       (gs[c].pc = "idle" /\ gs'[c].pc = "returned" /\ gs'[c].result # Absent)
         => objs[gs'[c].result].cleanups = 0]_vars

\* C34: no session has its cleanup invoked by more than one activation of the
\* exit handler
C34_ShutdownCleansOnce ==
  \A i \in DOMAIN objs : Cardinality({h \in ExitSlots : i \in ex[h].invoked}) <= 1

(***************************************************************************)
(* Server ids one of which, followed by the separator, begins the other    *)
(***************************************************************************)
PrefixUuids == {<<"s1">>, <<"s1", "_", "x">>}

PrefixKeys == {getSessionKey(u, p) : u \in PrefixUuids, p \in ValidParams}

PrefixNext ==
  \/ \E c \in Slots, u \in PrefixUuids, p \in ValidParams : GetSession(c, u, p)
  \/ \E c \in Slots, k \in PrefixKeys, ok \in BOOLEAN : TeardownSettle(c, k, ok)
  \/ \E c \in Slots : AfterTeardown(c)
  \/ \E c \in Slots, ok \in BOOLEAN : ConnectSettle(c, ok)

\* getSession calls for the servers "s1" and "s1_x"
PrefixSpec == SessionSpecInit /\ [][PrefixNext]_vars

\* the server id a session key was built from: the key less "_" and the digest
KeyOwner(k) == SubSeq(k, 1, Len(k) - 2)

\* C35: the sessions a getSession call closes, and the keys it removes, are
\* sessions and keys of the server id it was called for
C35_SupersessionOwnServerOnly ==
  \A c \in Started :
    /\ \A i \in gs[c].old : KeyOwner(objs[i].key) = gs[c].uuid
    /\ \A k \in gs[c].pending \cup gs[c].failed : KeyOwner(k) = gs[c].uuid

\* C36: when a getSession call that superseded a session of its server returns
\* absent because the new session could not be opened, the superseded sessions
\* have had their cleanup invoked and the registry holds no key of that server
C36_NoFallbackToOldSession ==
  [][\A c \in Slots :
       (/\ gs[c].pc \in {"teardown", "connect"}
        /\ gs'[c].pc = "returned"
        /\ gs'[c].result = Absent
        /\ gs[c].old # {})
         => /\ \A i \in gs[c].old : objs'[i].cleanups >= 1
            /\ \A k \in DOMAIN sessions' : ~startsWith(k, gs[c].uuid \o <<"_">>)]_vars

(***************************************************************************)
(* Listings of tools the handler cannot map                                *)
(***************************************************************************)
\* an answer of GET /api/tools with a tool whose name ends at the separator
\* ("GitHub_") and a tool that carries no server uuid
DirUnmappable ==
  << [uuid |-> <<"s1">>, name |-> <<"GitHub">>,
      tools |-> << <<"create", "_", "issue">>, << >> >>],
     [uuid |-> << >>, name |-> <<"a">>, tools |-> << <<"d">> >>] >>

UnmappableNext ==
  \/ \E d \in {DirGitHub, DirUnmappable} : DirectoryChange(d)
  \/ \E r \in RebuildSlots : ListToolsEnter(r)
  \/ \E r \in RebuildSlots, ok \in BOOLEAN : ListToolsSettle(r, ok)

\* tools/list requests while the directory serves such tools
UnmappableSpec == IndexSpecInit /\ [][UnmappableNext]_vars

\* C37: in the step in which a listing returns, every name it returns other
\* than the static tool's has an entry in toolToServerMap
C37_ListedNamesResolvable ==
  [][\A r \in RebuildSlots :
       (rb[r].pc = "fetching" /\ rb[r].kind = "list" /\ rb'[r].outcome = "ok")
         => \A i \in 1..Len(rb'[r].listed) :
              rb'[r].listed[i] # discoverToolsStaticTool
                => rb'[r].listed[i] \in DOMAIN toolToServerMap']_vars

(***************************************************************************)
(* Inactive tools under tools management                                   *)
(***************************************************************************)
InactiveSpecInit == DispatchSpecInit /\ profile.toolsManagement

NoRequestInFlight == \A c \in ReqSlots : rq[c].pc \in {"idle", "done"}

\* names a client asks call_tool for: an active tool of s1, the inactive tool
\* of s2
Git_Hub__list == <<"Git", "Hub", "_", "_", "list">>
InactiveCallNames == {GitHub__create_issue, Git_Hub__list}

\* call_tool invocations and get_tools listings, one after the other, of a
\* profile with tools management
InactiveNext ==
  \/ \E c \in ReqSlots, n \in InactiveCallNames :
       /\ ft.pc \in {"idle", "done"}
       /\ ToolCallEnter(c, n, [args |-> "a1", meta |-> MetaToken])
  \/ \E c \in ReqSlots : ToolCallServers(c)
  \/ \E c \in ReqSlots : ToolCallAfterSession(c)
  \/ \E c \in ReqSlots, ok \in BOOLEAN : ToolCallListSettle(c, ok)
  \/ \E c \in ReqSlots, a \in DownstreamAnswers : ToolCallSettle(c, a)
  \/ NoRequestInFlight /\ FanoutEnter("getTools")
  \/ \E fetched \in {serverParams, << >>} : FanoutServers(fetched)
  \/ \E j \in BranchSlots : BranchAfterSession(j)
  \/ \E j \in BranchSlots, ok \in BOOLEAN : BranchListSettle(j, ok)
  \/ FanoutReturn
  \/ \E cfg \in ServerConfigs :
       /\ NoRequestInFlight /\ ft.pc \in {"idle", "done"}
       /\ ServersReconfigured(cfg)
  \/ \E c \in Slots, k \in SessionKeys, ok \in BOOLEAN : TeardownSettle(c, k, ok)
  \/ \E c \in Slots : AfterTeardown(c)
  \/ \E c \in Slots, ok \in BOOLEAN : ConnectSettle(c, ok)

InactiveSpec == InactiveSpecInit /\ [][InactiveNext]_vars

\* the prefixed names of the tools marked inactive
InactiveNames ==
  {currentPrefixedName(Downstream(it[1]).name, it[2]) : it \in profile.inactive}

====
